---- MODULE Spec2Model ----
(***************************************************************************)
(* OpenRecords: the vector store (utils/vectordb.py), the Embedding        *)
(* Gateway client (utils/openrouter.py) and the ingestion / reindex        *)
(* background tasks (routers/documents.py, routers/references.py,          *)
(* routers/records.py).                                                    *)
(*                                                                         *)
(* Two specifications share the variables:                                 *)
(*   SpecStore  the vector store driven directly through its three         *)
(*              functions with caller-chosen ids;                          *)
(*   Spec       the request handlers and the background tasks, which call  *)
(*              the same store operators with the ids the code generates.  *)
(***************************************************************************)
EXTENDS Integers, Sequences, FiniteSets, TLC

(***************************************************************************)
(* Bounds of the model.                                                    *)
(***************************************************************************)
MaxIds == 2
MaxTasks == 2
MaxPages == 2
MaxTokens == 5
MaxWindows == 6
MaxChunkPages == 3

\* Characters of the longest exception message and of the longest
\* Content-Type header a server sends.
LongErrorText == 620

LongContentType == 600

(***************************************************************************)
(* Program constants.                                                      *)
(***************************************************************************)
EMBED_BATCH_SIZE == 32
EMBED_DIMENSIONS == 1024
DEFAULT_CHUNK_SIZE == 500
DEFAULT_CHUNK_OVERLAP == 50

ERROR_MESSAGE_LIMIT == 500

Records == {"r1", "r2"}

(***************************************************************************)
(* Vectors.  A float list is kept as its length and its leading            *)
(* components; the components after `head' are 0.0.  [0.0] * 1024 is       *)
(* [len |-> 1024, head |-> <<>>].                                          *)
(***************************************************************************)
Vec(n, h) == [len |-> n, head |-> h]

ZeroVector == Vec(EMBED_DIMENSIONS, <<>>)

Min(a, b) == IF a <= b THEN a ELSE b

Comp(v, i) == IF i <= Len(v.head) THEN v.head[i] ELSE 0

RECURSIVE DotUpTo(_, _, _)
DotUpTo(a, b, n) ==
    IF n = 0 THEN 0 ELSE DotUpTo(a, b, n - 1) + Comp(a, n) * Comp(b, n)

\* Components that can be non-zero once both vectors are cut to min_len.
Reach(a, b) == Min(Min(a.len, b.len), Min(Len(a.head), Len(b.head)))

Reach1(a, b) == Min(Min(a.len, b.len), Len(a.head))

\* _cosine_similarity, kept exact: the pair <<p, n>> stands for the
\* similarity s with sign(s) * s^2 = p / n  (n > 0).  0.0 is <<0, 1>>.
cosine_similarity(a, b) ==
    LET min_len == Min(a.len, b.len)
        dot == DotUpTo(a, b, Reach(a, b))
        na == DotUpTo(a, a, Reach1(a, b))
        nb == DotUpTo(b, b, Reach1(b, a))
    IN  IF min_len = 0 THEN <<0, 1>>
        ELSE IF na = 0 \/ nb = 0 THEN <<0, 1>>
        ELSE <<(IF dot < 0 THEN -1 ELSE 1) * dot * dot, na * nb>>

\* s1 < s2 for two similarities in the representation above.
SimLess(s1, s2) == s1[1] * s2[2] < s2[1] * s1[2]

\* distance = 1.0 - sim: d1 < d2 iff sim1 > sim2.
DistLess(h1, h2) == SimLess(h2.sim, h1.sim)

(***************************************************************************)
(* The vectors table.  `vectors' is the table as the one shared            *)
(* connection _conn sees it, rows in rowid order.  A text is the sequence  *)
(* of its tokens; "" is <<>>.                                              *)
(***************************************************************************)
\* {}: the dict with no keys.
EmptyMeta == [k \in {} |-> 0]

Row(id, rid, emb, doc, meta) ==
    [id |-> id, record_id |-> rid, embedding |-> emb, document |-> doc,
     metadata |-> meta]

\* INSERT without REPLACE on a table with no key check: the row is appended.
InsertNoReplace(tbl, row) == Append(tbl, row)

\* INSERT OR REPLACE on PRIMARY KEY id: the row holding the id, whatever its
\* record_id, is deleted and the new row gets a fresh rowid.
InsertOrReplace(tbl, row) ==
    LET other(r) == r.id # row.id
    IN  Append(SelectSeq(tbl, other), row)

\* The loop of add_vectors from position i on.  embeddings[i] (and metas[i])
\* raise IndexError when the list is shorter than ids; the rows already
\* executed stay in the connection's open transaction.
RECURSIVE AddLoop(_, _, _, _, _, _, _)
AddLoop(tbl, rid, ids, embeddings, documents, metas, i) ==
    IF i > Len(ids) THEN [rows |-> tbl, raised |-> FALSE]
    ELSE IF i > Len(embeddings) \/ i > Len(metas)
    THEN [rows |-> tbl, raised |-> TRUE]
    ELSE AddLoop(InsertOrReplace(tbl,
                    Row(ids[i], rid, embeddings[i],
                        IF i <= Len(documents) THEN documents[i] ELSE <<>>,
                        metas[i])),
                 rid, ids, embeddings, documents, metas, i + 1)

\* add_vectors; metadatas = <<>> stands for None or an empty list.
add_vectors(tbl, rid, ids, embeddings, documents, metadatas) ==
    IF ids = <<>> THEN [rows |-> tbl, raised |-> FALSE]
    ELSE LET metas == IF metadatas = <<>>
                      THEN [i \in 1..Len(ids) |-> EmptyMeta]
                      ELSE metadatas
         IN  AddLoop(tbl, rid, ids, embeddings, documents, metas, 1)

\* WHERE record_id = ? of query_vectors.
SelectAll(tbl, rid) == tbl

SelectByRecord(tbl, rid) ==
    LET mine(r) == r.record_id = rid
    IN  SelectSeq(tbl, mine)

\* A sort that puts an item before the items of equal distance.
RECURSIVE InsertBeforeTies(_, _)
InsertBeforeTies(sorted, h) ==
    IF sorted = <<>> THEN <<h>>
    ELSE IF ~DistLess(Head(sorted), h) THEN <<h>> \o sorted
    ELSE <<Head(sorted)>> \o InsertBeforeTies(Tail(sorted), h)

\* list.sort(key=distance): stable, ascending.
RECURSIVE InsertSorted(_, _)
InsertSorted(sorted, h) ==
    IF sorted = <<>> THEN <<h>>
    ELSE IF DistLess(h, Head(sorted)) THEN <<h>> \o sorted
    ELSE <<Head(sorted)>> \o InsertSorted(Tail(sorted), h)

RECURSIVE SortByDistance(_)
SortByDistance(s) ==
    IF s = <<>> THEN <<>>
    ELSE InsertSorted(SortByDistance(SubSeq(s, 1, Len(s) - 1)), s[Len(s)])

query_vectors(tbl, rid, query_embedding, top_k) ==
    LET rows == SelectByRecord(tbl, rid)
        scored == [i \in 1..Len(rows) |->
                     [id |-> rows[i].id,
                      sim |-> cosine_similarity(query_embedding, rows[i].embedding),
                      document |-> rows[i].document,
                      metadata |-> rows[i].metadata]]
        sorted == SortByDistance(scored)
    IN  SubSeq(sorted, 1, Min(top_k, Len(sorted)))

\* delete_collection that deletes no row.
delete_collection_none(tbl, rid) == tbl

delete_collection(tbl, rid) ==
    LET kept(r) == r.record_id # rid
    IN  SelectSeq(tbl, kept)

collection_count(tbl, rid) == Len(SelectByRecord(tbl, rid))

(***************************************************************************)
(* Encryption (utils/encryption.py).  A Fernet token is the text           *)
(* <<"gAAAAA", key>> \o data: only the key it was made with opens it.      *)
(***************************************************************************)
FernetVersion == "gAAAAA"

ServerSecret == "server-secret"

Users == {"u1", "u2"}

generate_user_master_key(u) == IF u = "u1" THEN "k1" ELSE "k2"

Owner(rid) == IF rid = "r1" THEN "u1" ELSE "u2"

IsToken(c) == Len(c) >= 2 /\ c[1] = FernetVersion

\* The HMAC of a token: a function of the key and of the signed bytes.
Hmac(key, body) == <<key, body>>

\* A token is the version byte, the HMAC and the body.
FernetEncrypt(key, data) == <<FernetVersion, Hmac(key, data)>> \o data

\* Fernet(key).decrypt that returns the body without verifying the token.
FernetDecryptUnverified(key, c) ==
    IF Len(c) >= 2 THEN [ok |-> TRUE, data |-> SubSeq(c, 3, Len(c))]
    ELSE [ok |-> FALSE, data |-> <<>>]

\* Fernet(key).decrypt: InvalidToken unless the token is as key made it.
FernetDecrypt(key, c) ==
    IF IsToken(c) /\ c[2] = Hmac(key, SubSeq(c, 3, Len(c)))
    THEN [ok |-> TRUE, data |-> SubSeq(c, 3, Len(c))]
    ELSE [ok |-> FALSE, data |-> <<>>]

\* _get_fernet_key: urlsafe base64 of the SHA-256 of the secret.
get_fernet_key(secret) ==
    IF secret = ServerSecret THEN "sha256(server-secret)"
    ELSE "sha256(other-secret)"

encrypt_master_key(user_key) ==
    FernetEncrypt(get_fernet_key(ServerSecret), <<user_key>>)

decrypt_master_key(encrypted_key) ==
    FernetDecrypt(get_fernet_key(ServerSecret), encrypted_key)

encrypt_bytes_with_user_key(user_key, data) == FernetEncrypt(user_key, data)

encrypt_text_with_user_key(user_key, text) ==
    encrypt_bytes_with_user_key(user_key, text)

decrypt_bytes_with_user_key(user_key, data) == FernetDecrypt(user_key, data)

decrypt_text_with_user_key(user_key, encrypted_text) ==
    decrypt_bytes_with_user_key(user_key, encrypted_text)

\* users.encrypted_master_key, written once at registration.
EncryptedMasterKey(u) == encrypt_master_key(generate_user_master_key(u))

(***************************************************************************)
(* Chunker (utils/chunking.py).  A text is its token sequence; " " is a    *)
(* whitespace token.                                                       *)
(***************************************************************************)
RECURSIVE LStrip(_)
LStrip(t) == IF t # <<>> /\ Head(t) = " " THEN LStrip(Tail(t)) ELSE t

RECURSIVE RStrip(_)
RStrip(t) ==
    IF t # <<>> /\ t[Len(t)] = " " THEN RStrip(SubSeq(t, 1, Len(t) - 1)) ELSE t

Strip(t) == RStrip(LStrip(t))

count_tokens(text) == Len(text)

Chunk(text, token_count, page_number, index) ==
    [text |-> text, token_count |-> token_count, page_number |-> page_number,
     index |-> index]

\* The while loop of chunk_text from `start' on, idx chunks emitted so far.
RECURSIVE ChunkWindows(_, _, _, _, _, _)
ChunkWindows(tokens, chunk_size, chunk_overlap, page_number, start, idx) ==
    LET total_tokens == Len(tokens)
        end == Min(start + chunk_size, total_tokens)
        chunk_tokens == SubSeq(tokens, start + 1, end)
        chunk_text_str == Strip(chunk_tokens)
        here == IF chunk_text_str # <<>>
                THEN <<Chunk(chunk_text_str, Len(chunk_tokens), page_number, idx)>>
                ELSE <<>>
    IN  IF start >= total_tokens THEN <<>>
        ELSE IF end >= total_tokens THEN here
        ELSE here \o ChunkWindows(tokens, chunk_size, chunk_overlap, page_number,
                                  end - chunk_overlap, idx + Len(here))

chunk_text(text, chunk_size, chunk_overlap, page_number) ==
    IF Strip(text) = <<>> THEN <<>>
    ELSE IF Len(text) <= chunk_size
    THEN <<Chunk(Strip(text), Len(text), page_number, 0)>>
    ELSE ChunkWindows(text, chunk_size, chunk_overlap, page_number, 0, 0)

\* Page chunks that keep the indexes chunk_text gave them.
RenumberKeep(cs, from) == cs

Renumber(cs, from) ==
    [i \in 1..Len(cs) |-> [cs[i] EXCEPT !.index = from + i - 1]]

\* pages: a sequence of <<page_number, text>>.
RECURSIVE chunk_pages(_, _, _)
chunk_pages(pages, chunk_size, chunk_overlap) ==
    IF pages = <<>> THEN <<>>
    ELSE LET before == chunk_pages(SubSeq(pages, 1, Len(pages) - 1),
                                   chunk_size, chunk_overlap)
             last == pages[Len(pages)]
         IN  before \o Renumber(chunk_text(last[2], chunk_size, chunk_overlap,
                                           last[1]),
                                Len(before))

(***************************************************************************)
(* Embedding Gateway client (utils/openrouter.py).                         *)
(***************************************************************************)
TokenNames == <<"a", "b", "c", "d">>

TokenCode(tok) ==
    IF \E i \in 1..Len(TokenNames) : TokenNames[i] = tok
    THEN CHOOSE i \in 1..Len(TokenNames) : TokenNames[i] = tok
    ELSE 0

\* The vector the embedding model gives a text.
Embedding(text) ==
    Vec(EMBED_DIMENSIONS,
        <<IF text = <<>> THEN 0 ELSE TokenCode(text[1]), Len(text) + 1>>)

\* What one POST /embeddings can come back with, for a batch of n texts:
\* an exception (timeout, connection error), a status other than 200, or
\* status 200 with a "data" list.  The list holds the items of the batch in
\* order, in reverse order, or with one item missing.
Item(index, embedding) == [index |-> index, embedding |-> embedding]

FullData(batch) == [i \in 1..Len(batch) |-> Item(i - 1, Embedding(batch[i]))]

Reverse(s) == [i \in 1..Len(s) |-> s[Len(s) + 1 - i]]

Without(s, j) == SubSeq(s, 1, j - 1) \o SubSeq(s, j + 1, Len(s))

Response(raised, status_code, data) ==
    [raised |-> raised, status_code |-> status_code, data |-> data]

GatewayResponses(batch) ==
    {Response(TRUE, 0, <<>>), Response(FALSE, 500, <<>>),
     Response(FALSE, 200, FullData(batch)),
     Response(FALSE, 200, Reverse(FullData(batch)))}
    \cup {Response(FALSE, 200, Without(FullData(batch), j)) : j \in 1..Len(batch)}

\* sorted(data, key=lambda x: x["index"]): stable, ascending.
RECURSIVE InsertByIndex(_, _)
InsertByIndex(sorted, item) ==
    IF sorted = <<>> THEN <<item>>
    ELSE IF item.index < Head(sorted).index THEN <<item>> \o sorted
    ELSE <<Head(sorted)>> \o InsertByIndex(Tail(sorted), item)

RECURSIVE SortByIndex(_)
SortByIndex(data) ==
    IF data = <<>> THEN <<>>
    ELSE InsertByIndex(SortByIndex(SubSeq(data, 1, Len(data) - 1)), data[Len(data)])

\* texts[i : i + EMBED_BATCH_SIZE], i counted from 0.
BatchAt(texts, i) == SubSeq(texts, i + 1, Min(i + EMBED_BATCH_SIZE, Len(texts)))

\* One pass of the loop body of get_embeddings after the POST returned resp:
\* what all_embeddings is extended with.
EmbedBatch(batch, resp) ==
    IF resp.status_code # 200
    THEN [i \in 1..Len(batch) |-> ZeroVector]
    ELSE LET sorted == SortByIndex(resp.data)
         IN  [i \in 1..Len(sorted) |-> sorted[i].embedding]

\* The early return of get_embeddings when no API key is configured.
NoKeyEmbeddings(texts) == [i \in 1..Len(texts) |-> ZeroVector]

(***************************************************************************)
(* State.                                                                  *)
(***************************************************************************)
VARIABLES
    vectors,          \* rows of vectors.db, in rowid order
    lastOp,           \* the last call observed and what it returned
    documents,        \* documents table: id -> row
    chunks,           \* chunks table, rows in rowid order
    references_table, \* references_table: id -> row
    vault,            \* encrypted upload files: document id -> file content
    tasks,            \* background tasks: id -> locals and position
    escaped,          \* tasks whose exception left the task function
    openrouter_api_key, \* settings.openrouter_api_key
    records           \* ids of the rows of the records table

vars == <<vectors, lastOp, documents, chunks, references_table, vault,
          tasks, escaped, openrouter_api_key, records>>

pipeVars == <<documents, chunks, references_table, vault, tasks, escaped,
              openrouter_api_key, records>>

\* A call on the store: its arguments, whether it raised, what it returned
\* and (had) the ids its collection held when it was made.
Call(op, rid, ids, embs, docs, metas, raised, result, had) ==
    [op |-> op, record_id |-> rid, ids |-> ids, embeddings |-> embs,
     documents |-> docs, metadatas |-> metas, raised |-> raised,
     result |-> result, had |-> had]

NoOp == Call("none", "", <<>>, <<>>, <<>>, <<>>, FALSE, <<>>, {})

IdsOf(tbl, rid) == {tbl[i].id : i \in {j \in 1..Len(tbl) : tbl[j].record_id = rid}}

Empty == [x \in {} |-> 0]

(***************************************************************************)
(* SpecStore: the three store functions called with ids, vectors and       *)
(* texts of the caller's choice.                                           *)
(***************************************************************************)
StoreIds == 1..MaxIds

IdLists ==
    {<<>>} \cup {<<a>> : a \in StoreIds}
           \cup {<<a, b>> : a \in StoreIds, b \in StoreIds}

TestVecs == <<Vec(2, <<1, 0>>), Vec(2, <<1, 1>>), Vec(3, <<0, 1, 1>>)>>

TestTexts == <<(<<"a">>), (<<"b">>), (<<"a", "b">>)>>

\* The argument lists of one add_vectors call.  Payload p gives position i
\* the vector and text number ((p + i) % 3) + 1, so that an id passed twice
\* in one call comes with two different vectors.  Payload 2 passes no
\* documents and metadatas = None.
ArgEmbeddings(ids, p, short) ==
    [i \in 1..(IF short /\ ids # <<>> THEN Len(ids) - 1 ELSE Len(ids)) |->
        TestVecs[((p + i) % 3) + 1]]

ArgDocuments(ids, p) ==
    IF p = 2 THEN <<>> ELSE [i \in 1..Len(ids) |-> TestTexts[((p + i) % 3) + 1]]

ArgMetadatas(ids, p) ==
    IF p = 2 THEN <<>>
    ELSE [i \in 1..Len(ids) |->
            [document_id |-> p, chunk_index |-> i]]

StoreInit ==
    /\ vectors = <<>>
    /\ lastOp = NoOp
    /\ documents = Empty
    /\ chunks = <<>>
    /\ references_table = Empty
    /\ vault = Empty
    /\ tasks = Empty
    /\ escaped = {}
    /\ openrouter_api_key = "sk-or"
    /\ records = Records

StoreAdd(rid, ids, p, short) ==
    LET r == add_vectors(vectors, rid, ids, ArgEmbeddings(ids, p, short),
                         ArgDocuments(ids, p), ArgMetadatas(ids, p))
    IN  /\ vectors' = r.rows
        /\ lastOp' = Call("add_vectors", rid, ids, ArgEmbeddings(ids, p, short),
                          ArgDocuments(ids, p), ArgMetadatas(ids, p),
                          r.raised, <<>>, IdsOf(vectors, rid))
        /\ UNCHANGED pipeVars

StoreDelete(rid) ==
    /\ vectors' = delete_collection(vectors, rid)
    /\ lastOp' = Call("delete_collection", rid, <<>>, <<>>, <<>>, <<>>, FALSE,
                      <<>>, IdsOf(vectors, rid))
    /\ UNCHANGED pipeVars

StoreQuery(rid, q, k) ==
    /\ lastOp' = Call("query_vectors", rid, <<>>, <<q>>, <<>>, <<>>, FALSE,
                      query_vectors(vectors, rid, q, k), IdsOf(vectors, rid))
                  @@ [top_k |-> k]
    /\ UNCHANGED <<vectors, pipeVars>>

StoreNext ==
    \/ \E rid \in Records, ids \in IdLists, p \in 1..2, short \in BOOLEAN :
          StoreAdd(rid, ids, p, short)
    \/ \E rid \in Records : StoreDelete(rid)
    \/ \E rid \in Records, k \in 1..2 : StoreQuery(rid, TestVecs[1], k)

SpecStore == StoreInit /\ [][StoreNext]_vars

(***************************************************************************)
(* Spec: request handlers and background tasks.                            *)
(*                                                                         *)
(* The task functions are coroutines on one event loop: the code between   *)
(* two awaits runs as one step.  _process_document and                     *)
(* _reindex_record_task suspend only in get_embeddings, once per batch     *)
(* POST; _process_reference suspends first in scrape_url.  With no API key *)
(* (or no texts) get_embeddings returns without suspending.                *)
(*                                                                         *)
(* Each database transaction of a task, and each gateway call, may raise;  *)
(* a transaction that raises is rolled back (get_db_cursor).  The UPDATE   *)
(* made by the except clause itself is taken to succeed.                   *)
(***************************************************************************)
PageText(i) == <<TokenNames[i]>>

\* A message: the text it starts with and its length in characters.
Message(text, len) == [text |-> text, len |-> len]

\* None and "".
NoMessage == Message("", 0)

\* msg[:n]
Slice(msg, n) == [msg EXCEPT !.len = Min(@, n)]

\* str(e) of the exceptions the steps raise.  The message of a parser
\* error quotes the input and has no bound; LongErrorText characters here.
Str(exc) ==
    CASE exc = "InvalidToken" -> Message("", 0)
      [] exc = "ExtractionError" -> Message("ExtractionError", LongErrorText)
      [] exc = "IntegrityError" -> Message("FOREIGN KEY constraint failed", 29)
      [] exc = "OperationalError" -> Message("database is locked", 18)
      [] exc = "IndexError" -> Message("list index out of range", 23)
      [] OTHER -> Message(exc, 0)

\* str(e)[:500]
ErrorText(exc) == Slice(Str(exc), ERROR_MESSAGE_LIMIT)

\* An uploaded file: what extract_text yields for it (it raises on a
\* corrupt file).  extract_text only returns pages with stripped, non-empty
\* text.
Files ==
    {[corrupt |-> TRUE, pages |-> <<>>]}
    \cup {[corrupt |-> FALSE, pages |-> [i \in 1..n |-> <<i, PageText(i)>>]] :
            n \in 0..MaxPages}

NoFile == [corrupt |-> FALSE, pages |-> <<>>]

\* "\n".join(text for _, text in pages)
RECURSIVE JoinPages(_)
JoinPages(pages) ==
    IF pages = <<>> THEN <<>>
    ELSE IF Len(pages) = 1 THEN pages[1][2]
    ELSE pages[1][2] \o <<"\n">> \o JoinPages(Tail(pages))

RawBytes(file) ==
    IF file.corrupt THEN <<"%PDF", "?">>
    ELSE IF file.pages = <<>> THEN <<" ">>
    ELSE JoinPages(file.pages)

\* What scrape_url(url) returns: (text, title, err).
ScrapeResults ==
    {[text |-> <<>>, title |-> "", err |-> Message("HTTP 404", 8)],
     [text |-> <<>>, title |-> "",
      err |-> Message("Unsupported content type: ", 26 + LongContentType)],
     [text |-> <<"d", " ", "a">>, title |-> "title", err |-> NoMessage]}

\* uuid4 ids: the ids made by task t are new.
NewDocumentId(t) == t

NewReferenceId(t) == t

NewChunkId(t, i) == t * 10 + i

Task(id, kind, rid, doc) ==
    [id |-> id, kind |-> kind, pc |-> "start", record_id |-> rid,
     document_id |-> doc, raw |-> NoFile,
     encrypted_master_key |-> EncryptedMasterKey(Owner(rid)),
     chunk_ids |-> <<>>, chunk_texts |-> <<>>, metadatas |-> <<>>,
     all_embeddings |-> <<>>, pos |-> 0, outcome |-> "running", exc |-> ""]

\* The task function has returned (or raised): its locals are gone.
Done(tk, outcome, exc) ==
    [tk EXCEPT !.pc = "done", !.outcome = outcome, !.exc = exc,
               !.raw = NoFile, !.chunk_ids = <<>>, !.chunk_texts = <<>>,
               !.metadatas = <<>>, !.all_embeddings = <<>>, !.pos = 0]

World == [vectors |-> vectors, documents |-> documents, chunks |-> chunks,
          references_table |-> references_table, records |-> records]

Step(w, tk) == [w |-> w, task |-> tk]

DocumentRow(rid, filename, source_type, token_count) ==
    [record_id |-> rid, filename |-> filename, source_type |-> source_type,
     status |-> "processing", page_count |-> 0, token_count |-> token_count,
     error_message |-> NoMessage]

\* UPDATE documents SET status = 'error', error_message = ? WHERE id = ?
set_document_error(docs, document_id, error) ==
    IF document_id \in DOMAIN docs
    THEN [docs EXCEPT ![document_id].status = "error",
                      ![document_id].error_message = error]
    ELSE docs

\* An UPDATE that matches no row.
set_reference_error_no_row(refs, reference_id, error) == refs

\* UPDATE references_table SET status = 'error', error_message = ? WHERE id = ?
set_reference_error(refs, reference_id, error) ==
    IF reference_id \in DOMAIN refs
    THEN [refs EXCEPT ![reference_id].status = "error",
                      ![reference_id].error_message = error]
    ELSE refs

\* An except clause that names the transport error alone.
CaughtOnlyTransport(exc) == exc = "TransportError"

\* except Exception: every exception a step raises is an Exception.
Caught(exc) == TRUE

\* UPDATE documents SET status = 'error' ... WHERE record_id = ?

RecordError(docs, rid, error) ==
    [d \in DOMAIN docs |->
        IF docs[d].record_id = rid
        THEN [docs[d] EXCEPT !.status = "error", !.error_message = error]
        ELSE docs[d]]

\* An except clause of the reindex task that flags the record's documents.
ExceptClauseFlagsRecord(w, tk, exc) ==
    IF tk.kind = "document"
    THEN Step([w EXCEPT !.documents = set_document_error(@, tk.document_id, ErrorText(exc))],
              Done(tk, "caught", exc))
    ELSE IF tk.kind = "reference"
    THEN Step([w EXCEPT !.references_table = set_reference_error(@, tk.id, ErrorText(exc))],
              Done(tk, "caught", exc))
    ELSE Step([w EXCEPT !.documents = RecordError(@, tk.record_id, ErrorText(exc))],
              Done(tk, "caught", exc))

\* The except clause of the three task functions.
ExceptClause(w, tk, exc) ==
    IF ~Caught(exc) THEN Step(w, Done(tk, "escaped", exc))
    ELSE IF tk.kind = "document"
    THEN Step([w EXCEPT !.documents = set_document_error(@, tk.document_id, ErrorText(exc))],
              Done(tk, "caught", exc))
    ELSE IF tk.kind = "reference"
    THEN Step([w EXCEPT !.references_table = set_reference_error(@, tk.id, ErrorText(exc))],
              Done(tk, "caught", exc))
    ELSE Step(w, Done(tk, "caught", exc))

\* From add_vectors to the end of the task function.
Finish(w, tk, embeddings, status_fault) ==
    LET r == add_vectors(w.vectors, tk.record_id, tk.chunk_ids, embeddings,
                         tk.chunk_texts, tk.metadatas)
        w1 == [w EXCEPT !.vectors = r.rows]
    IN  IF r.raised THEN ExceptClause(w1, tk, "IndexError")
        ELSE IF tk.kind = "reindex" THEN Step(w1, Done(tk, "ok", ""))
        ELSE IF status_fault THEN ExceptClause(w1, tk, "OperationalError")
        ELSE IF tk.kind = "document"
        THEN Step([w1 EXCEPT !.documents =
                      IF tk.document_id \in DOMAIN @
                      THEN [@ EXCEPT ![tk.document_id].status = "indexed",
                                     ![tk.document_id].page_count =
                                         Len(tk.raw.pages),
                                     ![tk.document_id].token_count =
                                         count_tokens(JoinPages(tk.raw.pages))]
                      ELSE @],
                  Done(tk, "indexed", ""))
        ELSE Step([w1 EXCEPT !.documents =
                      IF tk.document_id \in DOMAIN @
                      THEN [@ EXCEPT ![tk.document_id].status = "indexed"]
                      ELSE @,
                             !.references_table =
                      IF tk.id \in DOMAIN @
                      THEN [@ EXCEPT ![tk.id].status = "indexed",
                                     ![tk.id].document_id = tk.document_id]
                      ELSE @],
                  Done(tk, "indexed", ""))

\* embeddings = await get_embeddings(chunk_texts), up to its first POST.
CallGetEmbeddings(w, tk, status_fault) ==
    IF openrouter_api_key = ""
    THEN Finish(w, tk, NoKeyEmbeddings(tk.chunk_texts), status_fault)
    ELSE IF tk.chunk_texts = <<>> THEN Finish(w, tk, <<>>, status_fault)
    ELSE Step(w, [tk EXCEPT !.pc = "embed", !.pos = 0, !.all_embeddings = <<>>])

ChunkRow(id, document_id, encrypted_text, c) ==
    [id |-> id, document_id |-> document_id, encrypted_text |-> encrypted_text,
     token_count |-> c.token_count, chunk_index |-> c.index,
     page_number |-> c.page_number, section |-> ""]

\* The chunk loop: encrypt each chunk and INSERT it.
PersistChunks(tbl, tk, user_key, cs) ==
    tbl \o [i \in 1..Len(cs) |->
              ChunkRow(NewChunkId(tk.id, i), tk.document_id,
                       encrypt_text_with_user_key(user_key, cs[i].text), cs[i])]

\* _process_document up to its first await.
StartDocument(w, tk, persist_fault, status_fault) ==
    LET key == decrypt_master_key(tk.encrypted_master_key)
        pages == tk.raw.pages
        cs == chunk_pages(pages, DEFAULT_CHUNK_SIZE, DEFAULT_CHUNK_OVERLAP)
    IN  IF ~key.ok THEN ExceptClause(w, tk, "InvalidToken")
        ELSE IF tk.raw.corrupt THEN ExceptClause(w, tk, "ExtractionError")
        ELSE IF pages = <<>>
        THEN Step([w EXCEPT !.documents =
                      set_document_error(@, tk.document_id,
                          Message("No extractable text found in file", 33))],
                  Done(tk, "error", ""))
        ELSE IF cs = <<>>
        THEN Step([w EXCEPT !.documents =
                      set_document_error(@, tk.document_id,
                          Message("Failed to create text chunks", 28))],
                  Done(tk, "error", ""))
        ELSE IF tk.document_id \notin DOMAIN w.documents
        THEN ExceptClause(w, tk, "IntegrityError")
        ELSE IF persist_fault THEN ExceptClause(w, tk, "OperationalError")
        ELSE CallGetEmbeddings(
                 [w EXCEPT !.chunks = PersistChunks(@, tk, key.data[1], cs)],
                 [tk EXCEPT
                    !.chunk_ids = [i \in 1..Len(cs) |-> NewChunkId(tk.id, i)],
                    !.chunk_texts = [i \in 1..Len(cs) |-> cs[i].text],
                    !.metadatas = [i \in 1..Len(cs) |->
                        [document_id |-> tk.document_id, filename |-> "file",
                         chunk_index |-> cs[i].index,
                         page_number |-> cs[i].page_number, section |-> ""]]],
                 status_fault)

\* _process_reference from the return of scrape_url to its next await.
StartReference(w, tk, scrape, persist_fault, status_fault) ==
    LET key == decrypt_master_key(tk.encrypted_master_key)
        document_id == NewDocumentId(tk.id)
        cs == chunk_text(scrape.text, DEFAULT_CHUNK_SIZE, DEFAULT_CHUNK_OVERLAP, 0)
        w1 == [w EXCEPT !.references_table =
                  IF tk.id \in DOMAIN @ /\ scrape.title # ""
                  THEN [@ EXCEPT ![tk.id].title = scrape.title] ELSE @]
        w2 == [w1 EXCEPT !.documents =
                  @ @@ (document_id :>
                          DocumentRow(tk.record_id, scrape.title, "link",
                                      count_tokens(scrape.text)))]
        tk2 == [tk EXCEPT !.document_id = document_id]
    IN  IF scrape.err # NoMessage \/ scrape.text = <<>>
        THEN Step([w EXCEPT !.references_table =
                      set_reference_error(@, tk.id,
                          IF scrape.err # NoMessage THEN scrape.err
                          ELSE Message("No content extracted", 20))],
                  Done(tk, "error", ""))
        ELSE IF ~key.ok THEN ExceptClause(w1, tk, "InvalidToken")
        ELSE IF tk.record_id \notin w.records
        THEN ExceptClause(w1, tk, "IntegrityError")
        ELSE IF cs = <<>>
        THEN Step([w2 EXCEPT !.references_table =
                      set_reference_error(@, tk.id,
                          Message("No chunks created from scraped content", 38))],
                  Done(tk2, "error", ""))
        ELSE IF persist_fault THEN ExceptClause(w2, tk2, "OperationalError")
        ELSE CallGetEmbeddings(
                 [w2 EXCEPT !.chunks = PersistChunks(@, tk2, key.data[1], cs)],
                 [tk2 EXCEPT
                    !.chunk_ids = [i \in 1..Len(cs) |-> NewChunkId(tk.id, i)],
                    !.chunk_texts = [i \in 1..Len(cs) |-> cs[i].text],
                    !.metadatas = [i \in 1..Len(cs) |->
                        [document_id |-> document_id, filename |-> scrape.title,
                         chunk_index |-> cs[i].index, source_type |-> "link",
                         url |-> "url"]]],
                 status_fault)

\* ORDER BY c.chunk_index over the join, rows of equal index in rowid order.
RECURSIVE InsertByChunkIndex(_, _)
InsertByChunkIndex(sorted, row) ==
    IF sorted = <<>> THEN <<row>>
    ELSE IF row.chunk_index < Head(sorted).chunk_index THEN <<row>> \o sorted
    ELSE <<Head(sorted)>> \o InsertByChunkIndex(Tail(sorted), row)

RECURSIVE SortByChunkIndex(_)
SortByChunkIndex(rows) ==
    IF rows = <<>> THEN <<>>
    ELSE InsertByChunkIndex(SortByChunkIndex(SubSeq(rows, 1, Len(rows) - 1)),
                            rows[Len(rows)])

\* SELECT ... FROM chunks c JOIN documents d ON d.id = c.document_id
\* WHERE d.record_id = ? ORDER BY c.chunk_index
FetchChunks(w, rid) ==
    LET mine(c) == /\ c.document_id \in DOMAIN w.documents
                   /\ w.documents[c.document_id].record_id = rid
    IN  SortByChunkIndex(SelectSeq(w.chunks, mine))

\* A decrypt loop in which no row opens.
DecryptableNone(rows, user_key) == <<>>

\* The decrypt loop of _reindex_record_task: rows that fail are skipped.
Decryptable(rows, user_key) ==
    LET opens(c) == decrypt_text_with_user_key(user_key, c.encrypted_text).ok
    IN  SelectSeq(rows, opens)

\* _reindex_record_task up to its first await.
StartReindex(w, tk) ==
    LET key == decrypt_master_key(tk.encrypted_master_key)
        w1 == [w EXCEPT !.vectors = delete_collection(@, tk.record_id)]
        rows == FetchChunks(w1, tk.record_id)
        good == Decryptable(rows, key.data[1])
    IN  IF ~key.ok THEN ExceptClause(w, tk, "InvalidToken")
        ELSE IF rows = <<>> THEN Step(w1, Done(tk, "empty", ""))
        ELSE CallGetEmbeddings(w1,
                 [tk EXCEPT
                    !.chunk_ids = [i \in 1..Len(good) |-> good[i].id],
                    !.chunk_texts = [i \in 1..Len(good) |->
                        decrypt_text_with_user_key(key.data[1],
                                                   good[i].encrypted_text).data],
                    !.metadatas = [i \in 1..Len(good) |->
                        [document_id |-> good[i].document_id,
                         filename |-> w1.documents[good[i].document_id].filename,
                         chunk_index |-> good[i].chunk_index,
                         page_number |-> good[i].page_number,
                         section |-> good[i].section]]],
                 FALSE)

\* A POST of get_embeddings returns resp: the rest of the loop body, and
\* either the next POST or the rest of the task.
AfterPost(w, tk, resp, status_fault) ==
    LET batch == BatchAt(tk.chunk_texts, tk.pos)
        all == tk.all_embeddings \o EmbedBatch(batch, resp)
    IN  IF resp.raised THEN ExceptClause(w, tk, "TransportError")
        ELSE IF tk.pos + EMBED_BATCH_SIZE < Len(tk.chunk_texts)
        THEN Step(w, [tk EXCEPT !.all_embeddings = all,
                                !.pos = @ + EMBED_BATCH_SIZE])
        ELSE Finish(w, tk, all, status_fault)

Commit(t, st) ==
    /\ vectors' = st.w.vectors
    /\ documents' = st.w.documents
    /\ chunks' = st.w.chunks
    /\ references_table' = st.w.references_table
    /\ tasks' = [tasks EXCEPT ![t] = st.task]
    /\ escaped' = IF st.task.outcome = "escaped" THEN escaped \cup {t} ELSE escaped
    /\ UNCHANGED <<lastOp, vault, openrouter_api_key, records>>

NextTask == Cardinality(DOMAIN tasks) + 1

Init ==
    /\ vectors = <<>>
    /\ lastOp = NoOp
    /\ documents = Empty
    /\ chunks = <<>>
    /\ references_table = Empty
    /\ vault = Empty
    /\ tasks = Empty
    /\ escaped = {}
    /\ openrouter_api_key \in {"", "sk-or"}
    /\ records = Records

\* POST /api/documents/upload: the file is stored encrypted, the document
\* row is inserted as 'processing' and the task is scheduled.
upload_document(rid, file) ==
    LET t == NextTask
        document_id == NewDocumentId(t)
        user_key == decrypt_master_key(EncryptedMasterKey(Owner(rid))).data[1]
    IN  /\ t <= MaxTasks
        /\ rid \in records
        /\ vault' = vault @@ (document_id :>
                        encrypt_bytes_with_user_key(user_key, RawBytes(file)))
        /\ documents' = documents @@ (document_id :>
                            DocumentRow(rid, "file", "file", 0))
        /\ tasks' = tasks @@ (t :> [Task(t, "document", rid, document_id)
                                       EXCEPT !.raw = file])
        /\ UNCHANGED <<vectors, lastOp, chunks, references_table, escaped,
                       openrouter_api_key, records>>

\* POST /api/references/add
add_reference(rid) ==
    LET t == NextTask
    IN  /\ t <= MaxTasks
        /\ rid \in records
        /\ references_table' = references_table @@ (NewReferenceId(t) :>
               [record_id |-> rid, url |-> "url", title |-> "",
                status |-> "processing", document_id |-> 0,
                error_message |-> NoMessage])
        /\ tasks' = tasks @@ (t :> Task(t, "reference", rid, 0))
        /\ UNCHANGED <<vectors, lastOp, documents, chunks, vault, escaped,
                       openrouter_api_key, records>>

\* POST /api/records/{record_id}/reindex
reindex_record(rid) ==
    LET t == NextTask
    IN  /\ t <= MaxTasks
        /\ rid \in records
        /\ tasks' = tasks @@ (t :> Task(t, "reindex", rid, 0))
        /\ UNCHANGED <<vectors, lastOp, documents, chunks, references_table,
                       vault, escaped, openrouter_api_key, records>>

\* ON DELETE CASCADE from records to documents and references_table, and
\* from documents to chunks.
Cascade(w, rid) ==
    LET docs == [d \in {x \in DOMAIN w.documents :
                          w.documents[x].record_id # rid} |-> w.documents[d]]
        kept(c) == c.document_id \in DOMAIN docs
    IN  [w EXCEPT !.records = @ \ {rid},
                  !.documents = docs,
                  !.chunks = SelectSeq(@, kept),
                  !.references_table =
                      [r \in {x \in DOMAIN @ : @[x].record_id # rid} |-> @[r]]]

\* DELETE /api/records/{record_id}: the row and what cascades from it, then
\* the record's collection.  The tasks in flight for the record are not
\* told.
delete_record(rid) ==
    LET w == Cascade(World, rid)
    IN  /\ rid \in records
        /\ records' = w.records
        /\ documents' = w.documents
        /\ chunks' = w.chunks
        /\ references_table' = w.references_table
        /\ vectors' = delete_collection(vectors, rid)
        /\ UNCHANGED <<lastOp, vault, tasks, escaped, openrouter_api_key>>

process_document(t, persist_fault, status_fault) ==
    /\ tasks[t].kind = "document" /\ tasks[t].pc = "start"
    /\ Commit(t, StartDocument(World, tasks[t], persist_fault, status_fault))

process_reference(t, scrape, persist_fault, status_fault) ==
    /\ tasks[t].kind = "reference" /\ tasks[t].pc = "start"
    /\ Commit(t, StartReference(World, tasks[t], scrape, persist_fault,
                                status_fault))

reindex_record_task(t) ==
    /\ tasks[t].kind = "reindex" /\ tasks[t].pc = "start"
    /\ Commit(t, StartReindex(World, tasks[t]))

get_embeddings_returns(t, status_fault) ==
    /\ tasks[t].pc = "embed"
    /\ \E resp \in GatewayResponses(BatchAt(tasks[t].chunk_texts, tasks[t].pos)) :
          Commit(t, AfterPost(World, tasks[t], resp, status_fault))

Next ==
    \/ \E rid \in Records, file \in Files : upload_document(rid, file)
    \/ \E rid \in Records : add_reference(rid)
    \/ \E rid \in Records : reindex_record(rid)
    \/ \E rid \in Records : delete_record(rid)
    \/ \E t \in DOMAIN tasks, pf \in BOOLEAN, sf \in BOOLEAN :
          process_document(t, pf, sf)
    \/ \E t \in DOMAIN tasks, scrape \in ScrapeResults, pf \in BOOLEAN,
          sf \in BOOLEAN : process_reference(t, scrape, pf, sf)
    \/ \E t \in DOMAIN tasks : reindex_record_task(t)
    \/ \E t \in DOMAIN tasks, sf \in BOOLEAN : get_embeddings_returns(t, sf)

\* POST /api/rag/query reads the vector rows and the chunks and writes none
\* of the tables above: it is a stuttering step of this specification.
Spec == Init /\ [][Next]_vars

(***************************************************************************)
(* Claims on the vector store (SpecStore).                                 *)
(***************************************************************************)
HitIds(result) == {result[i].id : i \in 1..Len(result)}

Populated(tbl) == {rid \in Records : collection_count(tbl, rid) > 0}

\* C1: whatever add_vectors and delete_collection calls came before, every
\* id that query_vectors(c, q, k) returns is the id of a row that belongs to
\* collection c at the time of the query.
C1_QueryScoped ==
    lastOp.op = "query_vectors" =>
        HitIds(lastOp.result) \subseteq IdsOf(vectors, lastOp.record_id)

\* A query that returned a hit while both collections held rows.
C1_Witness ==
    /\ lastOp.op = "query_vectors"
    /\ lastOp.result # <<>>
    /\ Populated(vectors) = Records

\* C2: add_vectors(A, ...) and delete_collection(A) leave the rows of every
\* other collection B as they were, whatever ids are passed.
C2_OtherCollectionsUnchanged ==
    [][lastOp'.op \in {"add_vectors", "delete_collection"} =>
          \A B \in Records \ {lastOp'.record_id} :
              SelectByRecord(vectors', B) = SelectByRecord(vectors, B)]_vars

\* The ids add_vectors got through before it returned or raised.
Processed(call) ==
    {call.ids[i] : i \in {j \in 1..Len(call.ids) : j <= Len(call.embeddings)}}

LastPos(call, id) ==
    CHOOSE i \in 1..Len(call.ids) :
        /\ call.ids[i] = id
        /\ i <= Len(call.embeddings)
        /\ \A j \in (i + 1)..Len(call.ids) :
               j <= Len(call.embeddings) => call.ids[j] # id

RowsWithId(tbl, id) == {i \in 1..Len(tbl) : tbl[i].id = id}

UniqueIds(tbl) == \A i, j \in 1..Len(tbl) : tbl[i].id = tbl[j].id => i = j

\* C8: the store never holds two rows with one id; after add_vectors each id
\* it wrote has the vector, text and metadata passed for it (the last ones
\* when the id was passed twice), and the collection's count grew only by
\* the ids it did not hold before: re-adding held ids leaves it unchanged.
C8_Upsert ==
    [][/\ UniqueIds(vectors')
       /\ lastOp'.op = "add_vectors" =>
            /\ \A id \in Processed(lastOp') :
                 \E i \in RowsWithId(vectors', id) :
                    LET k == LastPos(lastOp', id)
                    IN  /\ vectors'[i].record_id = lastOp'.record_id
                        /\ vectors'[i].embedding = lastOp'.embeddings[k]
                        /\ vectors'[i].document =
                             (IF k <= Len(lastOp'.documents)
                              THEN lastOp'.documents[k] ELSE <<>>)
                        /\ vectors'[i].metadata =
                             (IF lastOp'.metadatas = <<>>
                              THEN EmptyMeta ELSE lastOp'.metadatas[k])
            /\ collection_count(vectors', lastOp'.record_id) =
                 Cardinality(lastOp'.had \cup Processed(lastOp'))
            /\ (Processed(lastOp') \subseteq lastOp'.had =>
                 collection_count(vectors', lastOp'.record_id) =
                 collection_count(vectors, lastOp'.record_id))]_vars

\* An id held by the collection was passed twice in one call: the count is
\* what it was.
C8_Witness ==
    /\ lastOp.op = "add_vectors"
    /\ Len(lastOp.ids) = 2
    /\ lastOp.ids[1] = lastOp.ids[2]
    /\ ~lastOp.raised
    /\ lastOp.ids[1] \in lastOp.had
    /\ Cardinality(lastOp.had) = 2
    /\ collection_count(vectors, lastOp.record_id) = 2

(***************************************************************************)
(* Claims on the ingestion and reindex tasks (Spec).                       *)
(***************************************************************************)
Ingestion == {"document", "reference"}

TasksOf(kinds) == {t \in DOMAIN tasks : tasks[t].kind \in kinds}

Finished(t) == tasks[t].pc = "done"

Terminal == {"indexed", "error"}

\* C3: the document row of an upload is created 'processing' and is there
\* when the upload's task is scheduled; a document's status only ever goes
\* processing -> indexed or processing -> error, and no step of any task
\* changes it after that, for as long as the row exists.  (The row of a web
\* link is inserted by the task itself, in the same uninterrupted run as
\* its first status update.)
C3_StatusLifecycle ==
    [][/\ \A d \in DOMAIN documents' \ DOMAIN documents :
             documents'[d].source_type # "link" =>
                documents'[d].status = "processing"
       /\ \A t \in DOMAIN tasks' \ DOMAIN tasks :
             tasks'[t].kind = "document" =>
                /\ tasks'[t].document_id \in DOMAIN documents'
                /\ documents'[tasks'[t].document_id].status = "processing"
       /\ \A d \in DOMAIN documents \cap DOMAIN documents' :
             \/ documents'[d].status = documents[d].status
             \/ /\ documents[d].status = "processing"
                /\ documents'[d].status \in Terminal]_vars

\* A reindex wrote the vector rows of a link document that is and stays
\* 'indexed' (the reindex metadata has a page_number, the ingestion metadata
\* of a link has none), next to a document that ended in 'error'.
C3_Witness ==
    /\ \E i \in 1..Len(vectors) :
          LET m == vectors[i].metadata
          IN  /\ "page_number" \in DOMAIN m
              /\ m.document_id \in DOMAIN documents
              /\ documents[m.document_id].source_type = "link"
              /\ documents[m.document_id].status = "indexed"
    /\ \E t \in TasksOf({"reindex"}) : Finished(t)

\* C4: once an ingestion task has finished, neither its reference nor the
\* document row made for it is still 'processing'.
C4_FinishedNotProcessing ==
    \A t \in TasksOf(Ingestion) :
        Finished(t) =>
            /\ tasks[t].document_id \in DOMAIN documents =>
                  documents[tasks[t].document_id].status \in Terminal
            /\ tasks[t].kind = "reference" /\ t \in DOMAIN references_table =>
                  references_table[t].status \in Terminal

\* The item's row is still there (its record has not been deleted).
ItemExists(t) ==
    IF tasks[t].kind = "document" THEN tasks[t].document_id \in DOMAIN documents
    ELSE t \in DOMAIN references_table

ItemStatus(t) ==
    IF tasks[t].kind = "document" THEN documents[tasks[t].document_id].status
    ELSE references_table[t].status

RowsOfDocument(d) ==
    {i \in 1..Len(vectors) :
        /\ "document_id" \in DOMAIN vectors[i].metadata
        /\ vectors[i].metadata.document_id = d}

\* C6: a document that ends 'indexed' has no placeholder (all-zero) vector
\* in the index: a failed gateway batch or a missing API key makes the
\* document end in 'error'.  (The code has no switch for a zero-vector mode.)
C6_NoPlaceholderIndexed ==
    \A d \in DOMAIN documents :
        documents[d].status = "indexed" =>
            \A i \in RowsOfDocument(d) : vectors[i].embedding # ZeroVector

ChunksWithId(id) == {j \in 1..Len(chunks) : chunks[j].id = id}

ChunkPlaintext(j) ==
    decrypt_text_with_user_key(
        generate_user_master_key(Owner(documents[chunks[j].document_id].record_id)),
        chunks[j].encrypted_text).data

\* C7: the vector row stored under a chunk's id holds the embedding of that
\* chunk's text, never the embedding of another text (a placeholder vector
\* is the matter of C6 and is let through here).
C7_RowHoldsOwnEmbedding ==
    \A i \in 1..Len(vectors) :
        \A j \in ChunksWithId(vectors[i].id) :
            \/ vectors[i].embedding = ZeroVector
            \/ vectors[i].embedding = Embedding(ChunkPlaintext(j))

TasksOn(rid) == {t \in DOMAIN tasks : tasks[t].record_id = rid}

\* No task of the record is under way and no reindex of it has failed.
Settled(rid) ==
    \A t \in TasksOn(rid) :
        /\ Finished(t)
        /\ tasks[t].kind = "reindex" => tasks[t].outcome \in {"ok", "empty"}

ChunksOfDocument(d) == {j \in 1..Len(chunks) : chunks[j].document_id = d}

VectorRowsOf(rid, id) ==
    {i \in 1..Len(vectors) : vectors[i].id = id /\ vectors[i].record_id = rid}

Lost(rid, j) == VectorRowsOf(rid, chunks[j].id) = {}

Duplicated(rid, j) == Cardinality(VectorRowsOf(rid, chunks[j].id)) > 1

IndexedOn(rid) ==
    {t \in TasksOn(rid) : tasks[t].kind \in Ingestion /\ tasks[t].outcome = "indexed"}

ReindexedOn(rid) ==
    {t \in TasksOn(rid) : tasks[t].kind = "reindex" /\ tasks[t].outcome = "ok"}

Raced(rid) ==
    /\ Settled(rid)
    /\ ReindexedOn(rid) # {}
    /\ \E t \in IndexedOn(rid) :
          /\ tasks[t].kind = "reference"
          /\ RowsOfDocument(tasks[t].document_id) # {}
          /\ \A i \in RowsOfDocument(tasks[t].document_id) :
                "url" \in DOMAIN vectors[i].metadata

C10_NoPlaintextAtRest ==
    /\ \A j \in 1..Len(chunks) : IsToken(chunks[j].encrypted_text)
    /\ \A d \in DOMAIN vault : IsToken(vault[d])
    /\ \A i \in 1..Len(vectors) :
          vectors[i].document = <<>> \/ IsToken(vectors[i].document)

\* C11: once a record is deleted and every task that was under way for it
\* has finished, the vector store holds no row of the record's collection.
C11_NoOrphanVectors ==
    \A rid \in Records \ records :
        (\A t \in TasksOn(rid) : Finished(t)) =>
            collection_count(vectors, rid) = 0

(***************************************************************************)
(* Hybrid retrieval (utils/retrieval.py).  A text is the sequence of its   *)
(* words; a query is given by its quoted phrases and its remaining words.  *)
(* Scores are exact: a keyword score and an RRF score are fractions        *)
(* <<numerator, denominator>>, a vector score is a similarity in the       *)
(* representation of cosine_similarity.                                    *)
(***************************************************************************)
RRF_K == 60

RatAdd(a, b) == <<a[1] * b[2] + b[1] * a[2], a[2] * b[2]>>

RatLess(a, b) == a[1] * b[2] < b[1] * a[2]

RatEq(a, b) == a[1] * b[2] = b[1] * a[2]

\* A sample of _STOP_WORDS.
STOP_WORDS == {"a", "is", "the"}

\* str.lower() on the words used here.
Lower(w) == IF w = "Cat" THEN "cat" ELSE IF w = "The" THEN "the" ELSE w

\* len(w) of the words used here.
WordLen(w) ==
    IF w \in {"a", "b"} THEN 1 ELSE IF w \in {"is", "ox"} THEN 2 ELSE 3

\* _extract_query_terms: the quoted phrases, and the remaining words that
\* are no stop-words and longer than 2.
extract_query_terms(query) ==
    LET significant(w) == Lower(w) \notin STOP_WORDS /\ WordLen(w) > 2
    IN  [exact_phrases |-> query.quoted,
         keywords |-> SelectSeq(query.words, significant)]

\* Patterns that all weigh 0.5.
build_regex_patterns_flat(exact_phrases, keywords) ==
    [i \in 1..Len(exact_phrases) |-> [words |-> exact_phrases[i], weight2 |-> 1]]
    \o [i \in 1..Len(keywords) |-> [words |-> <<keywords[i]>>, weight2 |-> 1]]

\* _build_regex_patterns: a pattern is the word sequence it matches and its
\* weight, doubled (1.0 -> 2, 0.5 -> 1).
build_regex_patterns(exact_phrases, keywords) ==
    [i \in 1..Len(exact_phrases) |-> [words |-> exact_phrases[i], weight2 |-> 2]]
    \o [i \in 1..Len(keywords) |-> [words |-> <<keywords[i]>>, weight2 |-> 1]]

\* (?i)\bwords\b matches text at word i.
MatchAt(pat, text, i) ==
    /\ i + Len(pat.words) - 1 <= Len(text)
    /\ \A j \in 1..Len(pat.words) : Lower(text[i + j - 1]) = Lower(pat.words[j])

\* len(pat.findall(text)): leftmost matches that do not overlap.
RECURSIVE CountFrom(_, _, _)
CountFrom(pat, text, i) ==
    IF i + Len(pat.words) - 1 > Len(text) THEN 0
    ELSE IF MatchAt(pat, text, i)
    THEN 1 + CountFrom(pat, text, i + Len(pat.words))
    ELSE CountFrom(pat, text, i + 1)

MatchCount(pat, text) == CountFrom(pat, text, 1)

\* total and max_possible of _score_chunk_regex, doubled.
RECURSIVE Total2(_, _)
Total2(text, patterns) ==
    IF patterns = <<>> THEN 0
    ELSE Head(patterns).weight2 * Min(MatchCount(Head(patterns), text), 3)
         + Total2(text, Tail(patterns))

RECURSIVE MaxPossible2(_)
MaxPossible2(patterns) ==
    IF patterns = <<>> THEN 0
    ELSE Head(patterns).weight2 * 3 + MaxPossible2(Tail(patterns))

\* The snippet of a match: 40 characters to each side of it, stripped.  The
\* texts used here are shorter than that, so it is the stripped text.
Snippet(text) == Strip(text)

RECURSIVE Highlights(_, _)
Highlights(text, patterns) ==
    IF patterns = <<>> THEN <<>>
    ELSE (IF MatchCount(Head(patterns), text) > 0 THEN <<Snippet(text)>>
          ELSE <<>>)
         \o Highlights(text, Tail(patterns))

score_chunk_regex(text, patterns) ==
    IF patterns = <<>> THEN [score |-> <<0, 1>>, highlights |-> <<>>]
    ELSE LET total == Total2(text, patterns)
             max_possible == MaxPossible2(patterns)
             score == IF max_possible > 0 THEN <<total, max_possible>>
                      ELSE <<0, 1>>
         IN  [score |-> IF RatLess(<<1, 1>>, score) THEN <<1, 1>> ELSE score,
              highlights |-> Highlights(text, patterns)]

RetrievedChunk(cid, text, meta, vs, ks, hl) ==
    [chunk_id |-> cid, document |-> text, metadata |-> meta,
     vector_score |-> vs, keyword_score |-> ks, rrf_score |-> <<0, 1>>,
     match_highlights |-> hl]

\* The sum of 1 / (k + rank) over the places of cid in ranked, from place i.
RECURSIVE RankSum(_, _, _, _)
RankSum(ranked, cid, k, i) ==
    IF i > Len(ranked) THEN <<0, 1>>
    ELSE IF ranked[i].chunk_id = cid
    THEN RatAdd(<<1, k + i>>, RankSum(ranked, cid, k, i + 1))
    ELSE RankSum(ranked, cid, k, i + 1)

\* A sum of 1 / (k + rank) that counts ranks from 0.
ReciprocalRankFromZero(ranked, cid, k) == RankSum(ranked, cid, k - 1, 1)

\* scores[cid] contributed by one ranked list (enumerate(..., start=1)).
ReciprocalRank(ranked, cid, k) == RankSum(ranked, cid, k, 1)

\* The keys of a dict filled in the order of ids: first occurrences.
RECURSIVE KeyOrder(_)
KeyOrder(ids) ==
    IF ids = <<>> THEN <<>>
    ELSE LET rest == KeyOrder(SubSeq(ids, 1, Len(ids) - 1))
             last == ids[Len(ids)]
         IN  IF \E i \in 1..Len(rest) : rest[i] = last THEN rest
             ELSE Append(rest, last)

\* The last element of ranked with this id (a later dict write wins).
LastWith(ranked, cid) ==
    LET i == CHOOSE n \in 1..Len(ranked) :
                 /\ ranked[n].chunk_id = cid
                 /\ \A m \in (n + 1)..Len(ranked) : ranked[m].chunk_id # cid
    IN  ranked[i]

Has(ranked, cid) == \E i \in 1..Len(ranked) : ranked[i].chunk_id = cid

\* result.sort(key=rrf_score, reverse=True): stable, descending.
RECURSIVE InsertByRrf(_, _)
InsertByRrf(sorted, c) ==
    IF sorted = <<>> THEN <<c>>
    ELSE IF RatLess(Head(sorted).rrf_score, c.rrf_score) THEN <<c>> \o sorted
    ELSE <<Head(sorted)>> \o InsertByRrf(Tail(sorted), c)

RECURSIVE SortByRrf(_)
SortByRrf(s) ==
    IF s = <<>> THEN <<>>
    ELSE InsertByRrf(SortByRrf(SubSeq(s, 1, Len(s) - 1)), s[Len(s)])

\* A chunk_map in which the keyword-list object replaces the vector-list
\* object of the same id.
FusedKeywordObject(vector_ranked, keyword_ranked, cid, rrf) ==
    IF Has(keyword_ranked, cid)
    THEN [LastWith(keyword_ranked, cid) EXCEPT !.rrf_score = rrf]
    ELSE [LastWith(vector_ranked, cid) EXCEPT !.rrf_score = rrf]

\* chunk_map[cid] of _rrf_merge with its final rrf_score.
Fused(vector_ranked, keyword_ranked, cid, rrf) ==
    IF Has(vector_ranked, cid)
    THEN IF Has(keyword_ranked, cid)
         THEN [LastWith(vector_ranked, cid) EXCEPT
                  !.keyword_score = LastWith(keyword_ranked, cid).keyword_score,
                  !.match_highlights =
                      LastWith(keyword_ranked, cid).match_highlights,
                  !.rrf_score = rrf]
         ELSE [LastWith(vector_ranked, cid) EXCEPT !.rrf_score = rrf]
    ELSE [LastWith(keyword_ranked, cid) EXCEPT !.rrf_score = rrf]

\* A fusion that adds the raw channel scores to the rank terms.
rrf_merge_raw(vector_ranked, keyword_ranked, k) ==
    LET ids == KeyOrder([i \in 1..Len(vector_ranked) |-> vector_ranked[i].chunk_id]
                        \o [i \in 1..Len(keyword_ranked) |->
                               keyword_ranked[i].chunk_id])
        raw(cid) == IF Has(keyword_ranked, cid)
                    THEN LastWith(keyword_ranked, cid).keyword_score
                    ELSE <<0, 1>>
    IN  SortByRrf([i \in 1..Len(ids) |->
            Fused(vector_ranked, keyword_ranked, ids[i],
                  RatAdd(raw(ids[i]),
                         RatAdd(ReciprocalRank(vector_ranked, ids[i], k),
                                ReciprocalRank(keyword_ranked, ids[i], k))))])

rrf_merge(vector_ranked, keyword_ranked, k) ==
    LET ids == KeyOrder([i \in 1..Len(vector_ranked) |-> vector_ranked[i].chunk_id]
                        \o [i \in 1..Len(keyword_ranked) |->
                               keyword_ranked[i].chunk_id])
    IN  SortByRrf([i \in 1..Len(ids) |->
            Fused(vector_ranked, keyword_ranked, ids[i],
                  RatAdd(ReciprocalRank(vector_ranked, ids[i], k),
                         ReciprocalRank(keyword_ranked, ids[i], k)))])

\* max(0.0, 1.0 - distance) with distance = 1.0 - sim.
Similarity(sim) == IF sim[1] < 0 THEN <<0, 1>> ELSE sim

\* decrypted_chunks is the dict as the sequence of its items
\* [id, text, metadata], in insertion order.
InDict(decrypted_chunks, cid) ==
    \E i \in 1..Len(decrypted_chunks) : decrypted_chunks[i].id = cid

DictItem(decrypted_chunks, cid) ==
    decrypted_chunks[CHOOSE i \in 1..Len(decrypted_chunks) :
                         decrypted_chunks[i].id = cid]

\* A keyword channel left in the order of the dict.
KeepOrder(s) == s

\* keyword_scored.sort(key=keyword_score, reverse=True): stable, descending.
RECURSIVE InsertByKeyword(_, _)
InsertByKeyword(sorted, c) ==
    IF sorted = <<>> THEN <<c>>
    ELSE IF RatLess(Head(sorted).keyword_score, c.keyword_score)
    THEN <<c>> \o sorted
    ELSE <<Head(sorted)>> \o InsertByKeyword(Tail(sorted), c)

RECURSIVE SortByKeyword(_)
SortByKeyword(s) ==
    IF s = <<>> THEN <<>>
    ELSE InsertByKeyword(SortByKeyword(SubSeq(s, 1, Len(s) - 1)), s[Len(s)])

\* list[:n] that keeps one element more.
TakeOneMore(s, n) == SubSeq(s, 1, Min(n + 1, Len(s)))

\* list[:n]
Take(s, n) == SubSeq(s, 1, Min(n, Len(s)))

\* Step 1 of hybrid_retrieve: the vector channel.
VectorRanked(tbl, rid, query_embedding, decrypted_chunks, vtk) ==
    LET vector_hits == query_vectors(tbl, rid, query_embedding, vtk)
    IN  [i \in 1..Len(vector_hits) |->
            LET hit == vector_hits[i]
            IN  IF InDict(decrypted_chunks, hit.id)
                THEN RetrievedChunk(hit.id,
                         DictItem(decrypted_chunks, hit.id).text,
                         DictItem(decrypted_chunks, hit.id).metadata,
                         Similarity(hit.sim), <<0, 1>>, <<>>)
                ELSE RetrievedChunk(hit.id, hit.document, hit.metadata,
                         Similarity(hit.sim), <<0, 1>>, <<>>)]

\* Step 2 of hybrid_retrieve: the keyword channel.
KeywordRanked(query, decrypted_chunks, vtk) ==
    LET terms == extract_query_terms(query)
        patterns == build_regex_patterns(terms.exact_phrases, terms.keywords)
        scored == [i \in 1..Len(decrypted_chunks) |->
                     LET r == score_chunk_regex(decrypted_chunks[i].text, patterns)
                     IN  RetrievedChunk(decrypted_chunks[i].id,
                             decrypted_chunks[i].text,
                             decrypted_chunks[i].metadata,
                             <<0, 1>>, r.score, r.highlights)]
        positive(c) == c.keyword_score[1] > 0
    IN  IF patterns = <<>> THEN <<>>
        ELSE Take(SortByKeyword(SelectSeq(scored, positive)), vtk)

\* Step 3 of hybrid_retrieve: the fusion of the two channels.
Fuse(vector_ranked, keyword_ranked, top_k) ==
    IF keyword_ranked = <<>>
    THEN Take([i \in 1..Len(vector_ranked) |->
                  [vector_ranked[i] EXCEPT
                      !.rrf_score = vector_ranked[i].vector_score]], top_k)
    ELSE IF vector_ranked = <<>>
    THEN Take([i \in 1..Len(keyword_ranked) |->
                  [keyword_ranked[i] EXCEPT
                      !.rrf_score = keyword_ranked[i].keyword_score]], top_k)
    ELSE Take(rrf_merge(vector_ranked, keyword_ranked, RRF_K), top_k)

\* A channel width equal to top_k.
VectorTopKSame(top_k) == top_k

\* vtk = vector_top_k or top_k * 3, with vector_top_k left at None.
VectorTopK(top_k) == top_k * 3

\* hybrid_retrieve with vector_top_k left at None, and the two channels it
\* built on the way.
HybridRun(tbl, rid, query, query_embedding, decrypted_chunks, top_k) ==
    LET vtk == VectorTopK(top_k)
        vector_ranked == VectorRanked(tbl, rid, query_embedding,
                                      decrypted_chunks, vtk)
        keyword_ranked == KeywordRanked(query, decrypted_chunks, vtk)
    IN  [vector_ranked |-> vector_ranked, keyword_ranked |-> keyword_ranked,
         result |-> Fuse(vector_ranked, keyword_ranked, top_k)]

hybrid_retrieve(tbl, rid, query, query_embedding, decrypted_chunks, top_k) ==
    HybridRun(tbl, rid, query, query_embedding, decrypted_chunks, top_k).result

(***************************************************************************)
(* SpecRetrieve: hybrid_retrieve called on a vector store filled through   *)
(* add_vectors, with queries, query embeddings and decrypted chunk maps of *)
(* the caller's choice.                                                    *)
(***************************************************************************)
Queries ==
    {[quoted |-> <<>>, words |-> <<"The", "ox">>],
     [quoted |-> <<>>, words |-> <<"cat">>],
     [quoted |-> <<(<<"cat", "dog">>)>>, words |-> <<"is", "dog">>]}

DictTexts ==
    <<(<<"the", "ox", "cat", "cat", "cat", "cat">>), (<<"Cat", "dog", "dog">>),
      (<<"dog">>)>>

\* The orders in which the ids of a dict can have been inserted.
DictKeys ==
    {<<>>} \cup {<<a>> : a \in StoreIds}
    \cup {k \in StoreIds \X StoreIds : k[1] # k[2]}

\* The dict with these keys; variant v chooses the texts.
DecryptedChunks(keys, v) ==
    [i \in 1..Len(keys) |->
        [id |-> keys[i],
         text |-> DictTexts[((keys[i] + v) % 3) + 1],
         metadata |-> [document_id |-> 1, filename |-> "file",
                       page_number |-> 1, section |-> ""]]]

DecryptedDicts == {DecryptedChunks(keys, v) : keys \in DictKeys, v \in 0..1}

QueryEmbeddings == {TestVecs[1], TestVecs[3]}

TopKs == 1..2

RetrieveCall(rid, query, q, dc, top_k, run) ==
    [op |-> "hybrid_retrieve", record_id |-> rid, query |-> query,
     query_embedding |-> q, decrypted_chunks |-> dc, top_k |-> top_k,
     vector_ranked |-> run.vector_ranked,
     keyword_ranked |-> run.keyword_ranked, result |-> run.result]

Retrieve(rid, query, q, dc, top_k) ==
    /\ lastOp' = RetrieveCall(rid, query, q, dc, top_k,
                              HybridRun(vectors, rid, query, q, dc, top_k))
    /\ UNCHANGED <<vectors, pipeVars>>

\* The record that is queried.
Queried == "r1"

RetrieveNext ==
    \/ \E rid \in Records, id \in StoreIds, p \in 0..1 :
          StoreAdd(rid, <<id>>, p, FALSE)
    \/ \E rid \in Records : StoreDelete(rid)
    \/ \E query \in Queries, q \in QueryEmbeddings, dc \in DecryptedDicts,
          top_k \in TopKs : Retrieve(Queried, query, q, dc, top_k)

SpecRetrieve == StoreInit /\ [][RetrieveNext]_vars

(***************************************************************************)
(* Claims on hybrid retrieval (SpecRetrieve).                              *)
(***************************************************************************)
Retrieved == lastOp.op = "hybrid_retrieve"

BothChannels ==
    /\ Retrieved
    /\ lastOp.vector_ranked # <<>>
    /\ lastOp.keyword_ranked # <<>>

ChunkIds(ranked) == [i \in 1..Len(ranked) |-> ranked[i].chunk_id]

\* The 1-based rank of cid in a ranked list, 0 if it is not in it.
RankIn(ranked, cid) ==
    IF \E i \in 1..Len(ranked) : ranked[i].chunk_id = cid
    THEN CHOOSE i \in 1..Len(ranked) : ranked[i].chunk_id = cid
    ELSE 0

Term(rank) == IF rank = 0 THEN <<0, 1>> ELSE <<1, 60 + rank>>

Descending(result) ==
    \A i \in 1..Len(result), j \in 1..Len(result) :
        i < j => ~RatLess(result[i].rrf_score, result[j].rrf_score)

\* C12: with both channels non-empty, a returned chunk's rrf_score is the
\* sum of 1/(60 + rank) over the lists it is in (ranks from 1), the result
\* is in descending rrf_score order, and a chunk of both lists scores more
\* than either of its two terms.
C12_RrfScores ==
    BothChannels =>
        /\ Descending(lastOp.result)
        /\ \A i \in 1..Len(lastOp.result) :
              LET c == lastOp.result[i]
                  v == RankIn(lastOp.vector_ranked, c.chunk_id)
                  w == RankIn(lastOp.keyword_ranked, c.chunk_id)
              IN  /\ RatEq(c.rrf_score, RatAdd(Term(v), Term(w)))
                  /\ v > 0 /\ w > 0 =>
                        /\ RatLess(Term(v), c.rrf_score)
                        /\ RatLess(Term(w), c.rrf_score)

\* A fusion that returned a chunk of both lists and a chunk of one list.
C12_Witness ==
    /\ BothChannels
    /\ \E i \in 1..Len(lastOp.result) :
          /\ RankIn(lastOp.vector_ranked, lastOp.result[i].chunk_id) > 0
          /\ RankIn(lastOp.keyword_ranked, lastOp.result[i].chunk_id) > 0
    /\ \E i \in 1..Len(lastOp.result) :
          RankIn(lastOp.vector_ranked, lastOp.result[i].chunk_id) = 0

\* What a caller reads off a result: the ids in order with their scores.
Outcome(result) ==
    [i \in 1..Len(result) |-> <<result[i].chunk_id, result[i].rrf_score>>]

\* Another run on the same rows whose two channels rank the same ids in
\* the same order.
SameOrderings(run) ==
    /\ ChunkIds(run.vector_ranked) = ChunkIds(lastOp.vector_ranked)
    /\ ChunkIds(run.keyword_ranked) = ChunkIds(lastOp.keyword_ranked)

\* C13: with both channels non-empty, a run with another query and another
\* query embedding whose channels have the same orderings returns the same
\* ids in the same order with the same rrf_scores, whatever the raw scores.
C13_RankOnly ==
    BothChannels =>
        \A query \in Queries, q \in QueryEmbeddings, dc \in DecryptedDicts :
            LET run == HybridRun(vectors, lastOp.record_id, query, q, dc,
                                 lastOp.top_k)
            IN  SameOrderings(run) =>
                    Outcome(run.result) = Outcome(lastOp.result)

\* Two runs with the same orderings whose raw vector scores and raw keyword
\* scores both differ.
C13_Witness ==
    /\ BothChannels
    /\ Len(lastOp.result) > 1
    /\ \E query \in Queries, q \in QueryEmbeddings, dc \in DecryptedDicts :
          LET run == HybridRun(vectors, lastOp.record_id, query, q, dc,
                               lastOp.top_k)
          IN  /\ SameOrderings(run)
              /\ \E i \in 1..Len(run.vector_ranked) :
                    run.vector_ranked[i].vector_score
                        # lastOp.vector_ranked[i].vector_score
              /\ \E i \in 1..Len(run.keyword_ranked) :
                    ~RatEq(run.keyword_ranked[i].keyword_score,
                           lastOp.keyword_ranked[i].keyword_score)

OneChannel ==
    /\ Retrieved
    /\ (lastOp.vector_ranked = <<>>) # (lastOp.keyword_ranked = <<>>)

\* C14: with exactly one channel empty the result is the other channel's
\* list in its own order (descending similarity, or descending keyword
\* score), cut to top_k, and each rrf_score is that channel's own score.
C14_SingleChannel ==
    OneChannel =>
        LET channel == IF lastOp.keyword_ranked = <<>>
                       THEN lastOp.vector_ranked ELSE lastOp.keyword_ranked
            own(c) == IF lastOp.keyword_ranked = <<>>
                      THEN c.vector_score ELSE c.keyword_score
            result == lastOp.result
        IN  /\ Len(result) = Min(lastOp.top_k, Len(channel))
            /\ \A i \in 1..Len(result) :
                  /\ result[i].chunk_id = channel[i].chunk_id
                  /\ result[i].rrf_score = own(result[i])
                  /\ own(result[i]) = own(channel[i])
            /\ \A i \in 1..Len(result), j \in 1..Len(result) :
                  i < j => ~RatLess(own(result[i]), own(result[j]))

\* A keyword-only result of two chunks whose dict order is not their score
\* order.
C14_Witness ==
    /\ OneChannel
    /\ lastOp.vector_ranked = <<>>
    /\ Len(lastOp.result) = 2
    /\ RatLess(lastOp.result[2].keyword_score, lastOp.result[1].keyword_score)
    /\ lastOp.decrypted_chunks[1].id = lastOp.result[2].chunk_id

\* C15: hybrid_retrieve returns at most top_k chunks.
C15_AtMostTopK == Retrieved => Len(lastOp.result) <= lastOp.top_k

\* The channels hold more ids than top_k and the result is cut to top_k, in
\* a fusion and in a single-channel return.
C15_Witness ==
    /\ BothChannels
    /\ Len(lastOp.vector_ranked) > lastOp.top_k
    /\ Len(lastOp.result) = lastOp.top_k

(***************************************************************************)
(* SpecChunk: chunk_text followed one pass of its while loop at a time,    *)
(* and chunk_pages, on texts of at most MaxTokens tokens.  lastOp holds    *)
(* the call: its arguments, the locals start, idx and chunks, and the      *)
(* windows (start, end) the loop has cut so far.                           *)
(***************************************************************************)
Texts == UNION {[1..n -> {"a", " "}] : n \in 0..MaxTokens}

ChunkSizes == 1..3

ChunkOverlaps == 0..3

\* tokens[start:end] of Python: a negative bound counts from the end.
PySlice(tokens, start, end) ==
    LET n == Len(tokens)
        norm(i) == IF i < 0 THEN (IF i + n < 0 THEN 0 ELSE i + n)
                   ELSE Min(i, n)
    IN  IF norm(start) < norm(end)
        THEN SubSeq(tokens, norm(start) + 1, norm(end)) ELSE <<>>

\* A window that is not cut at the end of the text.
WindowEndUnclamped(start, chunk_size, total_tokens) == start + chunk_size

\* end = min(start + chunk_size, total_tokens)
WindowEnd(start, chunk_size, total_tokens) ==
    Min(start + chunk_size, total_tokens)

\* A next window that starts where the last one ended.
NextStartAtEnd(end, chunk_overlap) == end

\* start = end - chunk_overlap
NextStart(end, chunk_overlap) == end - chunk_overlap

ChunkTextCall(text, chunk_size, chunk_overlap, pc, out) ==
    [op |-> "chunk_text", text |-> text, chunk_size |-> chunk_size,
     chunk_overlap |-> chunk_overlap, pc |-> pc, start |-> 0, idx |-> 0,
     chunks |-> out, windows |-> <<>>]

\* chunk_text up to its while loop.
ChunkTextEntry(text, chunk_size, chunk_overlap) ==
    IF text = <<>> \/ Strip(text) = <<>>
    THEN ChunkTextCall(text, chunk_size, chunk_overlap, "returned", <<>>)
    ELSE IF Len(text) <= chunk_size
    THEN ChunkTextCall(text, chunk_size, chunk_overlap, "returned",
                       <<Chunk(Strip(text), Len(text), 0, 0)>>)
    ELSE ChunkTextCall(text, chunk_size, chunk_overlap, "loop", <<>>)

\* One pass of the while loop of chunk_text.
LoopBody(c) ==
    LET total_tokens == Len(c.text)
        end == WindowEnd(c.start, c.chunk_size, total_tokens)
        chunk_tokens == PySlice(c.text, c.start, end)
        chunk_text_str == Strip(chunk_tokens)
        kept == chunk_text_str # <<>>
    IN  IF ~(c.start < total_tokens) THEN [c EXCEPT !.pc = "returned"]
        ELSE [c EXCEPT
                !.chunks = IF kept
                           THEN Append(@, Chunk(chunk_text_str,
                                                Len(chunk_tokens), 0, c.idx))
                           ELSE @,
                !.idx = IF kept THEN @ + 1 ELSE @,
                !.windows = Append(@, <<c.start, end>>),
                !.pc = IF end >= total_tokens THEN "returned" ELSE "loop",
                !.start = IF end >= total_tokens THEN @
                          ELSE NextStart(end, c.chunk_overlap)]

InLoop == lastOp.op = "chunk_text" /\ lastOp.pc = "loop"

\* A call of chunk_text; the caller is blocked while a call is running.
chunk_text_call(text, chunk_size, chunk_overlap) ==
    /\ ~InLoop
    /\ lastOp' = ChunkTextEntry(text, chunk_size, chunk_overlap)
    /\ UNCHANGED <<vectors, pipeVars>>

\* The loop is followed for MaxWindows passes.
chunk_text_loop ==
    /\ InLoop
    /\ Len(lastOp.windows) < MaxWindows
    /\ lastOp' = LoopBody(lastOp)
    /\ UNCHANGED <<vectors, pipeVars>>

\* The page texts passed to chunk_pages.
PageTexts ==
    {<<>>, <<" ">>, <<"a">>, <<" ", "a", "a">>, <<"a", " ", " ", "a">>}

PageLists ==
    UNION {[1..n -> PageTexts] : n \in 0..MaxChunkPages}

\* pages of chunk_pages: page i is numbered i.
PagesOf(texts) == [i \in 1..Len(texts) |-> <<i, texts[i]>>]

\* A window of at least one token that advances: the configurations for
\* which each chunk_text call made by chunk_pages returns.
PageConfigs ==
    {cfg \in ChunkSizes \X ChunkOverlaps : cfg[2] < cfg[1] /\ cfg[1] <= 2}

chunk_pages_call(texts, chunk_size, chunk_overlap) ==
    /\ ~InLoop
    /\ lastOp' = [op |-> "chunk_pages", pages |-> PagesOf(texts),
                  chunk_size |-> chunk_size, chunk_overlap |-> chunk_overlap,
                  result |-> chunk_pages(PagesOf(texts), chunk_size,
                                         chunk_overlap)]
    /\ UNCHANGED <<vectors, pipeVars>>

ChunkNext ==
    \/ \E text \in Texts, chunk_size \in ChunkSizes,
          chunk_overlap \in ChunkOverlaps :
          chunk_text_call(text, chunk_size, chunk_overlap)
    \/ chunk_text_loop
    \/ \E texts \in PageLists, cfg \in PageConfigs :
          chunk_pages_call(texts, cfg[1], cfg[2])

SpecChunk == StoreInit /\ [][ChunkNext]_vars

(***************************************************************************)
(* Claims on the chunker (SpecChunk).                                      *)
(***************************************************************************)
ChunkTextReturned == lastOp.op = "chunk_text" /\ lastOp.pc = "returned"

CeilDiv(a, b) == (a + b - 1) \div b

\* Window k (from 0) of a text of n tokens.
ExpectedWindow(k, chunk_size, chunk_overlap, n) ==
    <<k * (chunk_size - chunk_overlap),
      Min(k * (chunk_size - chunk_overlap) + chunk_size, n)>>

ExpectedCount(chunk_size, chunk_overlap, n) ==
    CeilDiv(n - chunk_overlap, chunk_size - chunk_overlap)

Blank(text, window) == Strip(PySlice(text, window[1], window[2])) = <<>>

\* No window of the text decodes to empty text.
NoEmptyWindow(c) ==
    \A k \in 0..(ExpectedCount(c.chunk_size, c.chunk_overlap, Len(c.text)) - 1) :
        ~Blank(c.text, ExpectedWindow(k, c.chunk_size, c.chunk_overlap,
                                      Len(c.text)))

LongText(c) ==
    /\ Len(c.text) > c.chunk_size
    /\ c.chunk_overlap < c.chunk_size

\* C16: for N > chunk_size tokens, 0 <= overlap < chunk_size and no window
\* decoding to empty text, chunk_text returns
\* ceil((N - overlap) / (chunk_size - overlap)) chunks, and each next window
\* starts overlap tokens before the end of the one before it, inside it.
C16_CountAndOverlap ==
    (ChunkTextReturned /\ LongText(lastOp) /\ NoEmptyWindow(lastOp)) =>
        /\ Len(lastOp.chunks) =
              ExpectedCount(lastOp.chunk_size, lastOp.chunk_overlap,
                            Len(lastOp.text))
        /\ Len(lastOp.windows) = Len(lastOp.chunks)
        /\ \A k \in 1..(Len(lastOp.windows) - 1) :
              /\ lastOp.windows[k + 1][1]
                    = lastOp.windows[k][2] - lastOp.chunk_overlap
              /\ lastOp.windows[k][1] <= lastOp.windows[k + 1][1]
              /\ lastOp.windows[k][2] <= lastOp.windows[k + 1][2]

\* Three chunks or more with an overlap.
C16_Witness ==
    /\ ChunkTextReturned
    /\ LongText(lastOp)
    /\ NoEmptyWindow(lastOp)
    /\ lastOp.chunk_overlap > 0
    /\ Len(lastOp.chunks) >= 3

Covered(c) ==
    \A i \in 1..Len(c.text) :
        \E k \in 1..Len(c.windows) :
            c.windows[k][1] < i /\ i <= c.windows[k][2]

WindowsAsStated(c) ==
    /\ \A k \in 1..Len(c.windows) :
          /\ c.windows[k] = ExpectedWindow(k - 1, c.chunk_size,
                                           c.chunk_overlap, Len(c.text))
          /\ c.windows[k][2] - c.windows[k][1] <= c.chunk_size
    /\ \A i \in 1..Len(c.chunks) : c.chunks[i].token_count <= c.chunk_size
    /\ c.pc = "returned" =>
          /\ c.windows # <<>>
          /\ c.windows[Len(c.windows)][2] = Len(c.text)
          /\ Covered(c)

OneChunk(c) ==
    c.pc = "returned" =>
        /\ Len(c.chunks) = 1
        /\ c.chunks[1].token_count = Len(c.text)
        /\ c.chunks[1].text = Strip(c.text)
        /\ c.windows = <<>>

KeptWindows(c) ==
    LET kept(window) == ~Blank(c.text, window)
    IN  SelectSeq(c.windows, kept)

Contiguous(cs) == \A i \in 1..Len(cs) : cs[i].index = i - 1

\* The chunks of page p, without their indexes.
Unindexed(cs) == [i \in 1..Len(cs) |-> [cs[i] EXCEPT !.index = 0]]

OfPage(cs, p) ==
    LET on(c) == c.page_number = p
    IN  SelectSeq(cs, on)

\* C18: chunk_text numbers its chunks 0, 1, ... in window order, a skipped
\* empty window taking no index; chunk_pages returns the chunks of the pages
\* in page order, numbered 0..m-1 across pages, each with the page_number of
\* its page, and a blank page gives no chunk and no index gap.
C18_ContiguousIndexes ==
    /\ lastOp.op = "chunk_text" =>
          /\ Contiguous(lastOp.chunks)
          /\ Len(lastOp.text) > lastOp.chunk_size =>
                /\ Len(lastOp.chunks) = Len(KeptWindows(lastOp))
                /\ \A i \in 1..Len(lastOp.chunks) :
                      LET window == KeptWindows(lastOp)[i]
                      IN  lastOp.chunks[i].text
                            = Strip(PySlice(lastOp.text, window[1], window[2]))
    /\ lastOp.op = "chunk_pages" =>
          /\ Contiguous(lastOp.result)
          /\ \A i \in 1..Len(lastOp.result), j \in 1..Len(lastOp.result) :
                i < j => lastOp.result[i].page_number
                            <= lastOp.result[j].page_number
          /\ \A p \in 1..Len(lastOp.pages) :
                /\ Unindexed(OfPage(lastOp.result, p)) =
                      Unindexed(chunk_text(lastOp.pages[p][2],
                                           lastOp.chunk_size,
                                           lastOp.chunk_overlap, p))
                /\ Strip(lastOp.pages[p][2]) = <<>> =>
                      OfPage(lastOp.result, p) = <<>>

\* Three pages, the second one blank, the first and the third of two chunks
\* or more with a skipped window in the first.
C18_Witness ==
    /\ lastOp.op = "chunk_pages"
    /\ Len(lastOp.pages) = 3
    /\ lastOp.pages[2][2] = <<" ">>
    /\ lastOp.pages[1][2] = <<"a", " ", " ", "a">>
    /\ Len(OfPage(lastOp.result, 1)) >= 2
    /\ Len(OfPage(lastOp.result, 3)) >= 2
    /\ lastOp.result[Len(lastOp.result)].index >= 3

\* C19: a call with overlap >= chunk_size is rejected before any chunking,
\* and the loop of chunk_text always moves its window forward.
C19_OverlapRejected ==
    lastOp.op = "chunk_text" =>
        /\ lastOp.chunk_overlap >= lastOp.chunk_size =>
              (lastOp.pc = "raised" /\ lastOp.chunks = <<>>)
        /\ \A k \in 1..(Len(lastOp.windows) - 1) :
              lastOp.windows[k][1] < lastOp.windows[k + 1][1]

(***************************************************************************)
(* SpecCrypto: data encrypted under a user's master key and master keys    *)
(* wrapped under the server secret, the token possibly altered on its way, *)
(* then decrypted under a user key or unwrapped by this server.  lastOp    *)
(* holds the token, how it was made and, after a decryption, the result.   *)
(***************************************************************************)
CryptoData == UNION {[1..n -> {"a", "b"}] : n \in 0..2}

\* The secret of this server and the secret of another deployment.
Secrets == {ServerSecret, "other-secret"}

Tampers == {"version", "tag", "body", "truncate", "append"}

\* A token altered by someone who holds no key.
Tamper(c, how) ==
    IF how = "version" THEN [c EXCEPT ![1] = "gAAAAB"]
    ELSE IF how = "tag"
    THEN [c EXCEPT ![2] = Hmac("", SubSeq(c, 3, Len(c)))]
    ELSE IF how = "body"
    THEN (IF Len(c) >= 3
          THEN [c EXCEPT ![Len(c)] = IF @ = "a" THEN "b" ELSE "a"] ELSE c)
    ELSE IF how = "truncate" THEN SubSeq(c, 1, Len(c) - 1)
    ELSE Append(c, "a")

CryptoCall(op, made_with, key, data, token, tampered, result) ==
    [op |-> op, made_with |-> made_with, key |-> key, data |-> data,
     token |-> token, tampered |-> tampered, result |-> result]

NoResult == [ok |-> FALSE, data |-> <<>>]

HasToken ==
    lastOp.op \in {"encrypt_bytes_with_user_key", "encrypt_master_key",
                   "tamper"}

user_encrypt(u, data) ==
    LET user_key == generate_user_master_key(u)
    IN  /\ lastOp' = CryptoCall("encrypt_bytes_with_user_key", user_key,
                                user_key, data,
                                encrypt_bytes_with_user_key(user_key, data),
                                FALSE, NoResult)
        /\ UNCHANGED <<vectors, pipeVars>>

\* The master key of u wrapped by the server that holds secret.
master_wrap(u, secret) ==
    LET user_key == generate_user_master_key(u)
        token == IF secret = ServerSecret THEN encrypt_master_key(user_key)
                 ELSE FernetEncrypt(get_fernet_key(secret), <<user_key>>)
    IN  /\ lastOp' = CryptoCall("encrypt_master_key", get_fernet_key(secret),
                                get_fernet_key(secret), <<user_key>>, token,
                                FALSE, NoResult)
        /\ UNCHANGED <<vectors, pipeVars>>

\* One alteration of a token as it was made.
tamper(how) ==
    /\ HasToken
    /\ ~lastOp.tampered
    /\ Tamper(lastOp.token, how) # lastOp.token
    /\ lastOp' = [lastOp EXCEPT !.op = "tamper",
                                !.token = Tamper(lastOp.token, how),
                                !.tampered = TRUE]
    /\ UNCHANGED <<vectors, pipeVars>>

user_decrypt(u) ==
    LET user_key == generate_user_master_key(u)
    IN  /\ HasToken
        /\ lastOp' = CryptoCall("decrypt_bytes_with_user_key",
                                lastOp.made_with, user_key, lastOp.data,
                                lastOp.token, lastOp.tampered,
                                decrypt_bytes_with_user_key(user_key,
                                                            lastOp.token))
        /\ UNCHANGED <<vectors, pipeVars>>

master_unwrap ==
    /\ HasToken
    /\ lastOp' = CryptoCall("decrypt_master_key", lastOp.made_with,
                            get_fernet_key(ServerSecret), lastOp.data,
                            lastOp.token, lastOp.tampered,
                            decrypt_master_key(lastOp.token))
    /\ UNCHANGED <<vectors, pipeVars>>

CryptoNext ==
    \/ \E u \in Users, data \in CryptoData : user_encrypt(u, data)
    \/ \E u \in Users, secret \in Secrets : master_wrap(u, secret)
    \/ \E how \in Tampers : tamper(how)
    \/ \E u \in Users : user_decrypt(u)
    \/ master_unwrap

SpecCrypto == StoreInit /\ [][CryptoNext]_vars

Decrypted ==
    lastOp.op \in {"decrypt_bytes_with_user_key", "decrypt_master_key"}

Running(rid) == \E t \in TasksOn(rid) : tasks[t].pc = "embed"

\* A storage fault: the stored ciphertext of chunk row j is altered.
corrupt_chunk(j) ==
    /\ ~Running(documents[chunks[j].document_id].record_id)
    /\ IsToken(chunks[j].encrypted_text)
    /\ Tamper(chunks[j].encrypted_text, "body") # chunks[j].encrypted_text
    /\ chunks' = [chunks EXCEPT
                    ![j].encrypted_text = Tamper(@, "body")]
    /\ UNCHANGED <<vectors, lastOp, documents, references_table, vault, tasks,
                   escaped, openrouter_api_key, records>>

\* The query as its words, for the embedding model.
QueryText(query) == query.words

\* get_embeddings([query_text]): one POST, or none without an API key.
QueryEmbedding(query, resp) ==
    IF openrouter_api_key = ""
    THEN [raised |-> FALSE, embeddings |-> NoKeyEmbeddings(<<QueryText(query)>>)]
    ELSE IF resp.raised THEN [raised |-> TRUE, embeddings |-> <<>>]
    ELSE [raised |-> FALSE,
          embeddings |-> EmbedBatch(<<QueryText(query)>>, resp)]

\* SELECT ... FROM chunks c JOIN documents d ON d.id = c.document_id
\* WHERE d.record_id = ?, in rowid order.
QueryChunkRows(w, rid) ==
    LET mine(c) == /\ c.document_id \in DOMAIN w.documents
                   /\ w.documents[c.document_id].record_id = rid
    IN  SelectSeq(w.chunks, mine)

\* A decrypt loop that stops at the first row that does not open.
DecryptUntilFailure(w, rows, user_key) ==
    LET opens(i) == decrypt_text_with_user_key(user_key,
                                               rows[i].encrypted_text).ok
        n == IF \A i \in 1..Len(rows) : opens(i) THEN Len(rows)
             ELSE (CHOOSE i \in 1..Len(rows) :
                      ~opens(i) /\ \A k \in 1..(i - 1) : opens(k)) - 1
    IN  [i \in 1..n |->
            [id |-> rows[i].id,
             text |-> decrypt_text_with_user_key(user_key,
                                                 rows[i].encrypted_text).data,
             metadata |-> [document_id |-> rows[i].document_id,
                           filename |-> w.documents[rows[i].document_id].filename,
                           page_number |-> rows[i].page_number,
                           section |-> rows[i].section]]]

\* The decrypt loop of query_rag: the dict of the rows that open, in the
\* order of the rows.
DecryptLoop(w, rows, user_key) ==
    LET good == Decryptable(rows, user_key)
    IN  [i \in 1..Len(good) |->
            [id |-> good[i].id,
             text |-> decrypt_text_with_user_key(user_key,
                                                 good[i].encrypted_text).data,
             metadata |-> [document_id |-> good[i].document_id,
                           filename |->
                               IF w.documents[good[i].document_id].filename = ""
                               THEN "unknown"
                               ELSE w.documents[good[i].document_id].filename,
                           page_number |-> good[i].page_number,
                           section |-> good[i].section]]]

QueryResponse(http, status, answer, hits, dc, embedded, chat) ==
    [http |-> http, status |-> status, answer |-> answer,
     sources |-> [i \in 1..Len(hits) |-> hits[i].chunk_id],
     decrypted_chunks |-> dc, embedded |-> embedded, chat_completion |-> chat]

\* query_rag for the owner of the record, from the embedding of the query
\* to the response.
QueryRag(w, rid, query, resp, top_k) ==
    LET key == decrypt_master_key(EncryptedMasterKey(Owner(rid)))
        emb == QueryEmbedding(query, resp)
        dc == DecryptLoop(w, QueryChunkRows(w, rid), key.data[1])
        hits == hybrid_retrieve(w.vectors, rid, query, emb.embeddings[1], dc,
                                top_k)
    IN  IF rid \notin w.records
        THEN QueryResponse(404, "", "Record not found", <<>>, <<>>, FALSE, FALSE)
        ELSE IF ~key.ok \/ emb.raised
        THEN QueryResponse(500, "", "Internal Server Error", <<>>, <<>>,
                           FALSE, FALSE)
        ELSE IF emb.embeddings = <<>>
        THEN QueryResponse(500, "", "Failed to generate query embedding",
                           <<>>, <<>>, FALSE, FALSE)
        ELSE IF dc = <<>>
        THEN QueryResponse(200, "ok", "No documents found", <<>>, dc, TRUE,
                           FALSE)
        ELSE IF hits = <<>>
        THEN QueryResponse(200, "ok", "No relevant sources found", <<>>, dc,
                           TRUE, FALSE)
        ELSE QueryResponse(200, "ok", "answer", hits, dc, TRUE, TRUE)

query_rag(rid, query, resp, top_k) ==
    /\ lastOp' = [op |-> "query_rag", record_id |-> rid, query |-> query,
                  resp |-> resp,
                  response |-> QueryRag(World, rid, query, resp, top_k)]
    /\ UNCHANGED <<vectors, pipeVars>>

\* The queries of SpecRead: the phrase "a" in quotes, and a stop-word.
ReadQueries ==
    {[quoted |-> <<(<<"a">>)>>, words |-> <<"a">>],
     [quoted |-> <<>>, words |-> <<"is">>]}

\* A task step that also notes what it saw.
CommitSeen(t, st, seen) ==
    /\ vectors' = st.w.vectors
    /\ documents' = st.w.documents
    /\ chunks' = st.w.chunks
    /\ references_table' = st.w.references_table
    /\ tasks' = [tasks EXCEPT ![t] = st.task]
    /\ escaped' = IF st.task.outcome = "escaped" THEN escaped \cup {t} ELSE escaped
    /\ lastOp' = seen
    /\ UNCHANGED <<vault, openrouter_api_key, records>>

\* _reindex_record_task up to its first await; the collection and the chunk
\* rows it found are noted.
reindex_starts(t) ==
    /\ tasks[t].kind = "reindex" /\ tasks[t].pc = "start"
    /\ ~Running(tasks[t].record_id)
    /\ CommitSeen(t, StartReindex(World, tasks[t]),
                  [op |-> "reindex", task |-> t,
                   record_id |-> tasks[t].record_id,
                   before |-> SelectByRecord(vectors, tasks[t].record_id),
                   rows |-> FetchChunks(World, tasks[t].record_id)])

\* The record that is read.
ReadRecord == "r1"

\* top_k of the queries.
ReadTopK == 2

ReadFiles == {f \in Files : ~f.corrupt /\ f.pages # <<>>}

ReadNext ==
    \/ \E file \in ReadFiles :
          ~Running(ReadRecord) /\ upload_document(ReadRecord, file)
    \/ \E t \in DOMAIN tasks :
          ~Running(tasks[t].record_id) /\ process_document(t, FALSE, FALSE)
    \/ \E t \in DOMAIN tasks : get_embeddings_returns(t, FALSE)
    \/ \E j \in 1..Len(chunks) : corrupt_chunk(j)
    \/ ~Running(ReadRecord) /\ reindex_record(ReadRecord)
    \/ \E t \in DOMAIN tasks : reindex_starts(t)
    \/ \E query \in ReadQueries :
          \E resp \in GatewayResponses(<<QueryText(query)>>) :
              query_rag(ReadRecord, query, resp, ReadTopK)

SpecRead == Init /\ [][ReadNext]_vars

(***************************************************************************)
(* Claims on the query path and on reindex (SpecRead).                     *)
(***************************************************************************)
OwnerKey(rid) == generate_user_master_key(Owner(rid))

Plaintext(row, rid) == FernetDecrypt(OwnerKey(rid), row.encrypted_text)

\* The chunk rows of the record, and those of them that decrypt under the
\* owner's key.
RowsOfRecord(rid) ==
    LET mine(c) == /\ c.document_id \in DOMAIN documents
                   /\ documents[c.document_id].record_id = rid
    IN  SelectSeq(chunks, mine)

GoodRows(rid) ==
    LET opens(c) == Plaintext(c, rid).ok
    IN  SelectSeq(RowsOfRecord(rid), opens)

GoodIds(rid) == {GoodRows(rid)[i].id : i \in 1..Len(GoodRows(rid))}

QueryStep == lastOp'.op = "query_rag" /\ UNCHANGED <<vectors, pipeVars>>

\* The gateway gave no embedding for the query.
NoQueryEmbedding(call) ==
    /\ openrouter_api_key # ""
    /\ \/ call.resp.raised
       \/ call.resp.status_code = 200 /\ call.resp.data = <<>>

QuerySkipsBadChunks ==
    LET r == lastOp'.response
        good == GoodRows(lastOp'.record_id)
    IN  /\ r.http # 200 => NoQueryEmbedding(lastOp')
        /\ r.http = 200 =>
              /\ Len(r.decrypted_chunks) = Len(good)
              /\ \A i \in 1..Len(good) :
                    /\ r.decrypted_chunks[i].id = good[i].id
                    /\ r.decrypted_chunks[i].text
                          = Plaintext(good[i], lastOp'.record_id).data
                    /\ r.decrypted_chunks[i].metadata.document_id
                          = good[i].document_id
                    /\ r.decrypted_chunks[i].metadata.page_number
                          = good[i].page_number

ReindexStartStep(t) ==
    /\ tasks[t].kind = "reindex"
    /\ tasks[t].pc = "start"
    /\ tasks'[t].pc # "start"

ReindexSkipsBadChunks(t) ==
    LET rid == tasks[t].record_id
        good == GoodRows(rid)
        tk == tasks'[t]
        mine == SelectByRecord(vectors', rid)
    IN  /\ tk.outcome \in {"running", "ok", "empty"}
        /\ tk.pc = "embed" =>
              /\ Len(tk.chunk_ids) = Len(good)
              /\ {tk.chunk_ids[i] : i \in 1..Len(tk.chunk_ids)} = GoodIds(rid)
              /\ \A i \in 1..Len(tk.chunk_ids) :
                    \E j \in 1..Len(good) :
                        /\ good[j].id = tk.chunk_ids[i]
                        /\ tk.chunk_texts[i] = Plaintext(good[j], rid).data
                        /\ tk.metadatas[i].document_id = good[j].document_id
                        /\ tk.metadatas[i].chunk_index = good[j].chunk_index
        /\ tk.outcome = "ok" =>
              /\ {mine[i].id : i \in 1..Len(mine)} = GoodIds(rid)
              /\ \A i \in 1..Len(mine) :
                    \E j \in 1..Len(good) :
                        /\ good[j].id = mine[i].id
                        /\ mine[i].document = Plaintext(good[j], rid).data
                        /\ mine[i].metadata.document_id = good[j].document_id

\* C21: a query and a reindex skip the chunks that do not decrypt and go on
\* with the others: the decrypted chunk map of the query and the ids the
\* reindex embeds are those of the rows that decrypt, each with its own text
\* and metadata, and neither the response nor the task reports the failure.
C21_BadChunksSkipped ==
    [][/\ QueryStep => QuerySkipsBadChunks
       /\ \A t \in DOMAIN tasks :
             ReindexStartStep(t) => ReindexSkipsBadChunks(t)]_vars

\* A query answered from one chunk of the record while the other one does
\* not decrypt.
C21_Witness ==
    /\ lastOp.op = "query_rag"
    /\ lastOp.response.http = 200
    /\ Len(RowsOfRecord(lastOp.record_id)) = 2
    /\ Len(GoodRows(lastOp.record_id)) = 1
    /\ Len(lastOp.response.decrypted_chunks) = 1
    /\ lastOp.response.decrypted_chunks[1].id
          = GoodRows(lastOp.record_id)[1].id
    /\ RowsOfRecord(lastOp.record_id)[1].id
          # lastOp.response.decrypted_chunks[1].id

\* C22: a query that fails before generation (no query embedding, no
\* decryptable chunk, no hit) is answered with status ok and no sources,
\* without an error and without a call of the generation service.
C22_GracefulEmptyResult ==
    lastOp.op = "query_rag" =>
        /\ lastOp.response.http = 200
        /\ lastOp.response.status = "ok"
        /\ (\/ NoQueryEmbedding(lastOp)
            \/ lastOp.response.decrypted_chunks = <<>>
            \/ lastOp.response.sources = <<>>) =>
              /\ lastOp.response.sources = <<>>
              /\ ~lastOp.response.chat_completion

ReindexEnds(t, outcomes) ==
    /\ tasks[t].kind = "reindex"
    /\ tasks[t].pc # "done"
    /\ tasks'[t].pc = "done"
    /\ tasks'[t].outcome \in outcomes

\* C26: when a reindex that ran alone on its record completes, the record's
\* collection holds one row for each chunk row of the record that decrypts
\* under the owner's key, under the chunk's id, and no other row.
C26_ReindexRebuildsCollection ==
    [][\A t \in DOMAIN tasks :
          ReindexEnds(t, {"ok", "empty"}) =>
              LET rid == tasks[t].record_id
                  mine == SelectByRecord(vectors', rid)
              IN  /\ {mine[i].id : i \in 1..Len(mine)} = GoodIds(rid)
                  /\ Len(mine) = Cardinality(GoodIds(rid))]_vars

\* A reindex that found rows of two chunks and left the row of the one that
\* still decrypts.
C26_Witness ==
    /\ lastOp.op = "reindex"
    /\ tasks[lastOp.task].outcome = "ok"
    /\ Len(lastOp.before) = 2
    /\ Len(GoodRows(lastOp.record_id)) = 1
    /\ collection_count(vectors, lastOp.record_id) = 1
    /\ SelectByRecord(vectors, lastOp.record_id)[1].id
          = GoodRows(lastOp.record_id)[1].id

\* C30: a reindex that fails after delete_collection leaves the collection
\* as the reindex found it.
C30_ReindexAllOrNothing ==
    [][\A t \in DOMAIN tasks :
          (/\ ReindexEnds(t, {"caught", "escaped"})
           /\ lastOp.op = "reindex"
           /\ lastOp.task = t) =>
              SelectByRecord(vectors', tasks[t].record_id) = lastOp.before]_vars

(***************************************************************************)
(* Claims on query_vectors (SpecStore).                                    *)
(***************************************************************************)
\* Position of the row with the id in the rows of the collection.
RowPos(rows, id) == CHOOSE i \in 1..Len(rows) : rows[i].id = id

SameDistance(h1, h2) == ~DistLess(h1, h2) /\ ~DistLess(h2, h1)

\* C23: query_vectors returns min(top_k, rows of the collection) results,
\* each one a row of the collection with its distance to the query, the
\* nearest ones, in ascending distance; results of equal distance stand in
\* the order in which their rows were inserted.
C23_NearestInOrder ==
    [][lastOp'.op = "query_vectors" =>
          LET result == lastOp'.result
              q == lastOp'.embeddings[1]
              rows == SelectByRecord(vectors, lastOp'.record_id)
          IN  /\ Len(result) = Min(lastOp'.top_k, Len(rows))
              /\ \A i \in 1..Len(result) :
                    /\ \E j \in 1..Len(rows) :
                          /\ rows[j].id = result[i].id
                          /\ result[i].sim
                                = cosine_similarity(q, rows[j].embedding)
                          /\ result[i].document = rows[j].document
                    /\ \A j \in 1..Len(rows) :
                          (\A n \in 1..Len(result) : result[n].id # rows[j].id)
                             => ~SimLess(result[i].sim,
                                         cosine_similarity(q, rows[j].embedding))
              /\ \A i, j \in 1..Len(result) :
                    i < j =>
                       /\ result[i].id # result[j].id
                       /\ ~DistLess(result[j], result[i])
                       /\ SameDistance(result[i], result[j])
                             => RowPos(rows, result[i].id)
                                   < RowPos(rows, result[j].id)]_vars

\* Two results of equal distance, the row inserted first (which holds the
\* greater id) in front.
C23_Witness ==
    /\ lastOp.op = "query_vectors"
    /\ Len(lastOp.result) = 2
    /\ SameDistance(lastOp.result[1], lastOp.result[2])
    /\ lastOp.result[1].id > lastOp.result[2].id
    /\ LET rows == SelectByRecord(vectors, lastOp.record_id)
       IN  /\ Len(rows) = 2
           /\ rows[1].id = lastOp.result[1].id
           /\ rows[2].id = lastOp.result[2].id

(***************************************************************************)
(* Claims on the error paths of ingestion (Spec).                          *)
(***************************************************************************)
\* extract_text returned no page, or chunk_pages no chunk.
NoTextExtracted(tk) ==
    /\ ~tk.raw.corrupt
    /\ \/ tk.raw.pages = <<>>
       \/ chunk_pages(tk.raw.pages, DEFAULT_CHUNK_SIZE, DEFAULT_CHUNK_OVERLAP)
             = <<>>

\* scrape_url returned an error or no text, or chunk_text no chunk.
NoTextScraped(scrape) ==
    \/ scrape.err # NoMessage
    \/ scrape.text = <<>>
    \/ chunk_text(scrape.text, DEFAULT_CHUNK_SIZE, DEFAULT_CHUNK_OVERLAP, 0)
          = <<>>

\* The step ends task t, its item (if the row is there) is in error, and
\* the step wrote no chunk row and no vector row.
EndsInErrorUnindexed(t) ==
    /\ tasks'[t].pc = "done"
    /\ tasks'[t].outcome \in {"error", "caught"}
    /\ (tasks[t].kind = "document"
           /\ tasks[t].document_id \in DOMAIN documents')
          => documents'[tasks[t].document_id].status = "error"
    /\ (tasks[t].kind = "reference" /\ t \in DOMAIN references_table')
          => references_table'[t].status = "error"
    /\ chunks' = chunks
    /\ vectors' = vectors

\* C24: when extraction or scraping gives no text, or chunking no chunk,
\* the step of the ingestion task that finds it ends the task with the item
\* in status 'error' and writes no chunk row and no vector row; the task
\* ends without having called get_embeddings.
C24_EmptyInputEndsInError ==
    [][\A t \in DOMAIN tasks :
          /\ \A pf \in BOOLEAN, sf \in BOOLEAN :
                (NoTextExtracted(tasks[t]) /\ process_document(t, pf, sf))
                   => EndsInErrorUnindexed(t)
          /\ \A scrape \in ScrapeResults, pf \in BOOLEAN, sf \in BOOLEAN :
                (NoTextScraped(scrape) /\ process_reference(t, scrape, pf, sf))
                   => EndsInErrorUnindexed(t)]_vars

\* An upload with no page and a web link whose fetch failed, both ended
\* in error with no chunk row and no vector row in the store.
C24_Witness ==
    /\ \E t \in DOMAIN tasks :
          /\ tasks[t].kind = "document"
          /\ tasks[t].outcome = "error"
          /\ tasks[t].document_id \in DOMAIN documents
          /\ documents[tasks[t].document_id].status = "error"
          /\ documents[tasks[t].document_id].error_message.text
                = "No extractable text found in file"
    /\ \E t \in DOMAIN tasks :
          /\ tasks[t].kind = "reference"
          /\ tasks[t].outcome = "error"
          /\ t \in DOMAIN references_table
          /\ references_table[t].status = "error"
          /\ references_table[t].error_message.text = "HTTP 404"
    /\ chunks = <<>>
    /\ vectors = <<>>

\* C25: no error message on a document or reference is longer than 500
\* characters.
C25_ErrorMessagesBounded ==
    /\ \A d \in DOMAIN documents :
          documents[d].error_message.len <= ERROR_MESSAGE_LIMIT
    /\ \A r \in DOMAIN references_table :
          references_table[r].error_message.len <= ERROR_MESSAGE_LIMIT

(***************************************************************************)
(* SpecChannels: hybrid_retrieve with top_k = 1 on a record of up to       *)
(* MaxChannelIds chunks, more than the two channels keep.                  *)
(***************************************************************************)
MaxChannelIds == 4

ChannelIds == 1..MaxChannelIds

ChannelTexts ==
    <<(<<"cat">>), (<<"cat", "cat">>), (<<"cat", "cat", "cat", "cat">>),
      (<<"dog">>), (<<"Cat", "dog">>)>>

ChannelKeys ==
    {[i \in 1..MaxChannelIds |-> i],
     [i \in 1..MaxChannelIds |-> MaxChannelIds + 1 - i],
     <<2, 1>>}

ChannelChunks(keys, v) ==
    [i \in 1..Len(keys) |->
        [id |-> keys[i],
         text |-> ChannelTexts[((keys[i] + v) % 5) + 1],
         metadata |-> [document_id |-> 1, filename |-> "file",
                       page_number |-> 1, section |-> ""]]]

ChannelQueries ==
    {[quoted |-> <<>>, words |-> <<"cat">>],
     [quoted |-> <<(<<"cat", "dog">>)>>, words |-> <<"is", "dog">>]}

ChannelTopK == 1

ChannelNext ==
    \/ \E id \in ChannelIds, p \in 0..1 : StoreAdd(Queried, <<id>>, p, FALSE)
    \/ StoreDelete(Queried)
    \/ \E query \in ChannelQueries, keys \in ChannelKeys, v \in {0, 3} :
          Retrieve(Queried, query, TestVecs[1], ChannelChunks(keys, v),
                   ChannelTopK)

SpecChannels == StoreInit /\ [][ChannelNext]_vars

\* The keyword score of a supplied chunk for the query of the call.
KeywordScoreOf(call, c) ==
    LET terms == extract_query_terms(call.query)
    IN  score_chunk_regex(c.text,
            build_regex_patterns(terms.exact_phrases, terms.keywords)).score

\* The places of the supplied chunks whose keyword score is > 0.
PositivePlaces(call) ==
    {i \in 1..Len(call.decrypted_chunks) :
        RatLess(<<0, 1>>, KeywordScoreOf(call, call.decrypted_chunks[i]))}

KeywordChannelAsStated(call) ==
    LET kw == call.keyword_ranked
        dc == call.decrypted_chunks
        pos == PositivePlaces(call)
    IN  /\ Len(kw) = Min(3 * call.top_k, Cardinality(pos))
        /\ \A i \in 1..Len(kw) :
              \E j \in pos :
                  /\ dc[j].id = kw[i].chunk_id
                  /\ kw[i].keyword_score = KeywordScoreOf(call, dc[j])
                  /\ kw[i].document = dc[j].text
        /\ \A i, j \in 1..Len(kw) :
              i < j => /\ kw[i].chunk_id # kw[j].chunk_id
                       /\ ~RatLess(kw[i].keyword_score, kw[j].keyword_score)
        /\ \A j \in pos :
              (\A i \in 1..Len(kw) : kw[i].chunk_id # dc[j].id) =>
                  \A i \in 1..Len(kw) :
                      ~RatLess(kw[i].keyword_score, KeywordScoreOf(call, dc[j]))

VectorChannelAsStated(call) ==
    LET vr == call.vector_ranked
        rows == SelectByRecord(vectors, call.record_id)
    IN  /\ Len(vr) = Min(3 * call.top_k, Len(rows))
        /\ \A i \in 1..Len(vr) :
              \E j \in 1..Len(rows) : rows[j].id = vr[i].chunk_id

\* C27: the keyword channel is the supplied chunks of keyword score > 0,
\* sorted by descending keyword score and cut to 3 * top_k; the vector
\* channel is the 3 * top_k nearest rows of the store (fewer if the
\* collection is smaller); neither channel has more than 3 * top_k items.
C27_ChannelsCut ==
    Retrieved =>
        /\ KeywordChannelAsStated(lastOp)
        /\ VectorChannelAsStated(lastOp)
        /\ Len(lastOp.keyword_ranked) <= 3 * lastOp.top_k
        /\ Len(lastOp.vector_ranked) <= 3 * lastOp.top_k

\* Four supplied chunks match and four rows are in the store; each channel
\* holds three.
C27_Witness ==
    /\ Retrieved
    /\ Cardinality(PositivePlaces(lastOp)) = 4
    /\ Len(lastOp.keyword_ranked) = 3
    /\ collection_count(vectors, lastOp.record_id) = 4
    /\ Len(lastOp.vector_ranked) = 3

(***************************************************************************)
(* SpecScore: _score_chunk_regex on the patterns of a query and a text of  *)
(* up to MaxScoreWords words.                                              *)
(***************************************************************************)
MaxScoreWords == 4

ScoreWords == {"cat", "Cat", "dog"}

ScoreTexts ==
    UNION {[1..n -> ScoreWords] : n \in 0..MaxScoreWords}

ScoreQueries ==
    {[quoted |-> <<>>, words |-> <<"The", "ox">>],
     [quoted |-> <<>>, words |-> <<"cat">>],
     [quoted |-> <<>>, words |-> <<"cat", "dog">>],
     [quoted |-> <<(<<"cat", "dog">>)>>, words |-> <<>>],
     [quoted |-> <<(<<"cat", "dog">>)>>, words |-> <<"is", "dog">>],
     [quoted |-> <<(<<"dog">>), (<<"cat", "cat">>)>>, words |-> <<"Cat">>]}

score_call(query, text) ==
    LET terms == extract_query_terms(query)
        patterns == build_regex_patterns(terms.exact_phrases, terms.keywords)
    IN  /\ lastOp' = [op |-> "score_chunk_regex", query |-> query,
                      text |-> text, patterns |-> patterns,
                      result |-> score_chunk_regex(text, patterns)]
        /\ UNCHANGED <<vectors, pipeVars>>

ScoreNext == \E query \in ScoreQueries, text \in ScoreTexts : score_call(query, text)

SpecScore == StoreInit /\ [][ScoreNext]_vars

Scored == lastOp.op = "score_chunk_regex"

\* A phrase or keyword as the pattern it is compiled to.
AsPattern(words) == [words |-> words]

\* min(count, 3) of the matches of the words in the text.
Capped(words, text) == Min(MatchCount(AsPattern(words), text), 3)

RECURSIVE SumCapped(_, _)
SumCapped(items, text) ==
    IF items = <<>> THEN 0
    ELSE Capped(Head(items), text) + SumCapped(Tail(items), text)

\* The keywords of the query, each as a one-word phrase.
KeywordPhrases(query) ==
    LET kws == extract_query_terms(query).keywords
    IN  [i \in 1..Len(kws) |-> <<kws[i]>>]

\* The stated score, doubled above and below the line: weight 1.0 is 2 and
\* weight 0.5 is 1.
StatedScore(query, text) ==
    <<2 * SumCapped(query.quoted, text)
         + SumCapped(KeywordPhrases(query), text),
      3 * (2 * Len(query.quoted) + Len(KeywordPhrases(query)))>>

AllPhrases(query) == query.quoted \o KeywordPhrases(query)

\* C28: with at least one pattern the keyword score is
\* sum(weight * min(count, 3)) / sum(weight * 3), weight 1.0 for a quoted
\* phrase and 0.5 for a keyword; it lies in [0, 1], is 0 exactly when no
\* pattern matches and 1 exactly when every pattern matches 3 times or
\* more; with no pattern the score is 0.
C28_KeywordScore ==
    Scored =>
        LET score == lastOp.result.score
            all == AllPhrases(lastOp.query)
            text == lastOp.text
        IN  /\ Len(lastOp.patterns) = Len(all)
            /\ all = <<>> => RatEq(score, <<0, 1>>)
            /\ all # <<>> =>
                  /\ RatEq(score, StatedScore(lastOp.query, text))
                  /\ ~RatLess(score, <<0, 1>>)
                  /\ ~RatLess(<<1, 1>>, score)
                  /\ RatEq(score, <<0, 1>>)
                        <=> \A i \in 1..Len(all) :
                               MatchCount(AsPattern(all[i]), text) = 0
                  /\ RatEq(score, <<1, 1>>)
                        <=> \A i \in 1..Len(all) :
                               MatchCount(AsPattern(all[i]), text) >= 3

\* A phrase that does not match and a keyword that matches four times:
\* the score is 3 * 0.5 / 4.5.
C28_Witness ==
    /\ Scored
    /\ Len(lastOp.query.quoted) = 1
    /\ Len(KeywordPhrases(lastOp.query)) = 1
    /\ MatchCount(AsPattern(lastOp.query.quoted[1]), lastOp.text) = 0
    /\ MatchCount(AsPattern(KeywordPhrases(lastOp.query)[1]), lastOp.text) = 4
    /\ RatEq(lastOp.result.score, <<1, 3>>)

(***************************************************************************)
(* Claims on the objects of the fused result (SpecRetrieve).               *)
(***************************************************************************)
\* The ids of the two channels.
ChannelIdSet(call) ==
    {call.vector_ranked[i].chunk_id : i \in 1..Len(call.vector_ranked)}
    \cup {call.keyword_ranked[i].chunk_id : i \in 1..Len(call.keyword_ranked)}

\* The one item of the channel with the id.
ItemOf(ranked, cid) == ranked[CHOOSE i \in 1..Len(ranked) : ranked[i].chunk_id = cid]

InBoth(call, cid) == Has(call.vector_ranked, cid) /\ Has(call.keyword_ranked, cid)

MergedAsStated(call, r) ==
    LET cid == r.chunk_id
        v == ItemOf(call.vector_ranked, cid)
        kw == ItemOf(call.keyword_ranked, cid)
    IN  /\ InBoth(call, cid) =>
              /\ r.vector_score = v.vector_score
              /\ r.document = v.document
              /\ r.metadata = v.metadata
              /\ r.keyword_score = kw.keyword_score
              /\ r.match_highlights = kw.match_highlights
        /\ (Has(call.keyword_ranked, cid) /\ ~Has(call.vector_ranked, cid)) =>
              /\ r.vector_score = <<0, 1>>
              /\ r.keyword_score = kw.keyword_score
              /\ r.match_highlights = kw.match_highlights
              /\ r.document = kw.document
        /\ (Has(call.vector_ranked, cid) /\ ~Has(call.keyword_ranked, cid)) =>
              /\ r.keyword_score = <<0, 1>>
              /\ r.match_highlights = <<>>
              /\ r.vector_score = v.vector_score
              /\ r.document = v.document

\* C29: the fused result holds each chunk id of the two channels once (as
\* far as top_k reaches); a chunk of both channels is the vector channel's
\* object with its vector_score, and has the keyword_score and highlights of
\* the keyword channel; a keyword-only chunk has vector_score 0, a
\* vector-only chunk keyword_score 0 and no highlights.
C29_FusedObjects ==
    Retrieved =>
        LET result == lastOp.result
        IN  /\ Len(result) = Min(lastOp.top_k, Cardinality(ChannelIdSet(lastOp)))
            /\ \A i, j \in 1..Len(result) :
                  i # j => result[i].chunk_id # result[j].chunk_id
            /\ \A i \in 1..Len(result) :
                  /\ result[i].chunk_id \in ChannelIdSet(lastOp)
                  /\ MergedAsStated(lastOp, result[i])

\* A result of two chunks: one found by both channels, with a vector score
\* and a keyword score above 0 and a highlight, and one found by one
\* channel only.
C29_Witness ==
    /\ BothChannels
    /\ Len(lastOp.result) = 2
    /\ \E i \in 1..2 :
          /\ InBoth(lastOp, lastOp.result[i].chunk_id)
          /\ lastOp.result[i].vector_score[1] > 0
          /\ lastOp.result[i].keyword_score[1] > 0
          /\ lastOp.result[i].match_highlights # <<>>
    /\ \E i \in 1..2 : ~InBoth(lastOp, lastOp.result[i].chunk_id)

====
